---------------------------- MODULE Spec2Model ----------------------------
(***************************************************************************)
(* Caption timing engine of yt_reddit_shortgen (src/src/subtitles.py).     *)
(*                                                                         *)
(* Text is modelled at character level: a string is a sequence of          *)
(* one-character strings, so that str.split(), str.strip(), ' '.join and   *)
(* the regex clean-up are computed, not assumed.                           *)
(*                                                                         *)
(* Time is modelled exactly.  One tick is 1/TicksPerSecond of the unit the *)
(* code calls seconds (50 ms; every input lies on that grid), and every    *)
(* time of a caption track is an integer numerator over the track's        *)
(* denominator den (1 on the word-timing path).  Python computes in binary *)
(* floating point; the model computes the same expressions over the        *)
(* rationals.                                                              *)
(***************************************************************************)
EXTENDS Integers, Sequences, FiniteSets, TLC

VARIABLES
    script,             \* generate_from_script: script
    subtitle_segments,  \* generate_from_script: subtitle_segments (<<>> is None)
    max_words,          \* SUBTITLE_WORDS_PER_LINE / _split_into_segments: max_words
    word_timings,       \* generate_from_script: word_timings (<<>> is None or [])
    audio_duration,     \* generate_from_script: audio_duration, in ticks
    audio_exists,       \* audio_path and Path(audio_path).exists()
    api_key,            \* bool(ASSEMBLYAI_API_KEY)
    pc,                 \* position in generate_from_script and its callees
    segments,           \* generate_from_script: segments
    words,              \* _generate_from_word_timings: words = script.split()
    timing_map,         \* _generate_from_word_timings: timing_map
    word_idx,           \* _generate_from_word_timings: word_idx (both loops)
    timing_idx,         \* _generate_from_word_timings: timing_idx
    skipped_timings,    \* _generate_from_word_timings: skipped_timings
    seg_idx,            \* _generate_from_word_timings: seg_idx
    wt_word_timings,    \* _generate_from_word_timings: word_timings
    durations,          \* _generate_proportional_timings: durations
    subtitles,          \* the track under construction / returned
    den,                \* denominator of the times in subtitles and durations
    consulted           \* <<source, outcome>> of each timing source called, in order

vars == <<script, subtitle_segments, max_words, word_timings, audio_duration,
          audio_exists, api_key, pc, segments, words, timing_map, word_idx,
          timing_idx, skipped_timings, seg_idx, wt_word_timings, durations,
          subtitles, den, consulted>>

\* server_scheduler.py: the daily scheduler process, its disk and the platform
VARIABLES
    clock,              \* _now_pacific(), in seconds since midnight of day 0
    start_now,          \* run_forever: start_now
    upload_all_now,     \* run_forever: upload_all_now
    sched_pc,           \* position of the scheduler process
    packs,              \* DAILY_PACKS_DIR: day |-> the manifest file of the pack
    youtube,            \* the platform: the video paths it stores, one per insert
    manifest,           \* the manifest in memory
    pack_dir,           \* run_forever: pack_dir, as the day it is named after
    cycle_start,        \* run_forever: cycle_start
    consecutive_failures, \* _generate_daily_pack: consecutive_failures
    result,             \* the outcome of the generate_video / _upload_video call
    generate_calls,     \* calls of pipeline.generate_video() in this cycle
    pending,            \* _schedule_uploads: pending, as positions in videos
    idx,                \* _schedule_uploads: idx
    interval_seconds,   \* _schedule_uploads: interval_seconds, as num / den
    slots_start_time,   \* _schedule_uploads: start_time
    upload_log,         \* calls of _upload_video, in order: path, start, outcome
    runs,               \* how many times the process was started
    escaped             \* the exception that ended the process, and where

schedulerVars == <<clock, start_now, upload_all_now, sched_pc, packs, youtube,
                   manifest, pack_dir, cycle_start, consecutive_failures,
                   result, generate_calls, pending, idx, interval_seconds,
                   slots_start_time, upload_log, runs, escaped>>

\* main_pipeline.py and story_cache.py: one generate_video call and the
\* used-story cache file
VARIABLES
    pipe_pc,            \* position in generate_video and _generate_video_internal
    attempt,            \* generate_video: attempt (0-based loop variable)
    failed_story_ids,   \* generate_video: failed_story_ids
    story,              \* _generate_video_internal: story['id'] (0 is no story)
    stage,              \* the step of _generate_video_internal that ran last
    used_ids,           \* CACHE_FILE: the list under 'used_ids' ([] is no file)
    pipe_result,        \* what generate_video returned or raised
    fetch_log,          \* the avoid lists passed to fetch_story, in order
    narrated,           \* ids whose narration was synthesized, now or in earlier runs
    add_log             \* the ids passed to add_story_id, in order

pipelineVars == <<pipe_pc, attempt, failed_story_ids, story, stage, used_ids,
                  pipe_result, fetch_log, narrated, add_log>>

\* youtube_uploader.py: one _resumable_upload call
VARIABLES
    up_pc,              \* position in _resumable_upload
    retry,              \* _resumable_upload: retry
    response,           \* _resumable_upload: response ("None" until the last chunk)
    up_error,           \* _resumable_upload: error is set
    chunk_log           \* the outcomes of the next_chunk calls, in order

uploaderVars == <<up_pc, retry, response, up_error, chunk_log>>

\* server_scheduler.py: one _cleanup_old_packs call on a directory listing
VARIABLES
    clean_pc,           \* position in _cleanup_old_packs
    today_date,         \* _now_pacific().date(), as <<year, month, day>>
    daily_packs,        \* DAILY_PACKS_DIR.iterdir(): the entries, by name
    packs_before,       \* the entries when _cleanup_old_packs was called
    visited             \* the entries the loop of _cleanup_old_packs has handled

cleanupVars == <<clean_pc, today_date, daily_packs, packs_before, visited>>

toolVars == <<pipelineVars, uploaderVars, cleanupVars>>

(***************************************************************************)
(* Bounds of the model.                                                    *)
(***************************************************************************)
MaxChars == 4       \* longest character-level script of the segmenter runs
MaxWindow == 2      \* largest caption-unit window size tried
MaxTimings == 2     \* longest word-timing list tried
MaxVideos == 3      \* most successful generations the orchestrator delivers per pack
MaxRuns == 3        \* most starts of the scheduler process
MaxDays == 2        \* days after day 0 the runs may reach

(***************************************************************************)
(* Characters and Python's string operations.                              *)
(***************************************************************************)
TicksPerSecond == 2 * 10

\* x thousandths of the code's time unit, in ticks
Ms(x) == (x * TicksPerSecond) \div 1000

Min(a, b) == IF a <= b THEN a ELSE b
Max(a, b) == IF a >= b THEN a ELSE b
Abs(a) == IF a >= 0 THEN a ELSE 0 - a

WhiteSpace == {" ", "\t", "\n"}

UpperChars == <<"A","B","C","D","E","F","G","H","I","J","K","L","M",
                "N","O","P","Q","R","S","T","U","V","W","X","Y","Z">>
LowerChars == <<"a","b","c","d","e","f","g","h","i","j","k","l","m",
                "n","o","p","q","r","s","t","u","v","w","x","y","z">>
Digits == {"0","1","2","3","4","5","6","7","8","9"}

Range(s) == {s[i] : i \in DOMAIN s}

\* the regex class \w on the model's alphabet
IsWordChar(c) == c \in Range(UpperChars) \cup Range(LowerChars) \cup Digits \cup {"_"}

\* str.lower() on one character
LowerChar(c) ==
    IF c \in Range(UpperChars)
    THEN LowerChars[CHOOSE i \in DOMAIN UpperChars : UpperChars[i] = c]
    ELSE c

Lower(s) == [i \in DOMAIN s |-> LowerChar(s[i])]

RECURSIVE SplitRec(_, _, _, _)
SplitRec(s, i, cur, out) ==
    IF i > Len(s)
    THEN IF cur = <<>> THEN out ELSE Append(out, cur)
    ELSE IF s[i] \in WhiteSpace
         THEN SplitRec(s, i + 1, <<>>, IF cur = <<>> THEN out ELSE Append(out, cur))
         ELSE SplitRec(s, i + 1, Append(cur, s[i]), out)

\* str.split(): the maximal runs of non-whitespace characters, in order
Split(s) == SplitRec(s, 1, <<>>, <<>>)

RECURSIVE Join(_)
\* ' '.join(ws)
Join(ws) ==
    IF ws = <<>> THEN <<>>
    ELSE IF Len(ws) = 1 THEN ws[1]
    ELSE ws[1] \o <<" ">> \o Join(Tail(ws))

RECURSIVE LStrip(_)
LStrip(s) == IF s # <<>> /\ s[1] \in WhiteSpace THEN LStrip(Tail(s)) ELSE s

RECURSIVE RStrip(_)
RStrip(s) ==
    IF s # <<>> /\ s[Len(s)] \in WhiteSpace
    THEN RStrip(SubSeq(s, 1, Len(s) - 1))
    ELSE s

\* str.strip()
Strip(s) == RStrip(LStrip(s))

\* s[a:b], Python slice on 0-based positions
Slice(s, a, b) == SubSeq(s, Min(a, Len(s)) + 1, Min(b, Len(s)))

\* needle in hay, for strings
IsSubstr(needle, hay) ==
    \E i \in 0..(Len(hay) - Len(needle)) :
        SubSeq(hay, i + 1, i + Len(needle)) = needle

(***************************************************************************)
(* Caption segmenter.                                                      *)
(***************************************************************************)
RECURSIVE SegLoop(_, _, _, _, _)
\* the for loop of _split_into_segments and the statements after it
SegLoop(ws, i, current_segment, segs, max) ==
    IF i > Len(ws)
    THEN IF current_segment # <<>>
         THEN Append(segs, Join(current_segment))
         ELSE segs
    ELSE IF Len(current_segment) < max
         THEN SegLoop(ws, i + 1, Append(current_segment, ws[i]), segs, max)
         ELSE SegLoop(ws, i + 1, <<ws[i]>>, Append(segs, Join(current_segment)), max)

\* a segmenter that forgets the words left over after the loop
split_into_segments_dropTail(s, max) ==
    LET ws == Split(s)
        segs == SegLoop(ws, 1, <<>>, <<>>, max)
        kept == IF Len(ws) % max = 0 \/ segs = <<>>
                THEN segs ELSE SubSeq(segs, 1, Len(segs) - 1)
    IN  IF kept # <<>> THEN kept ELSE <<s>>

split_into_segments(s, max) ==
    LET segs == SegLoop(Split(s), 1, <<>>, <<>>, max)
    IN  IF segs # <<>> THEN segs ELSE <<s>>

RECURSIVE ExtendAll(_, _)
\* segments.extend(_split_into_segments(segment, n)) for each supplied segment
ExtendAll(given, max) ==
    IF given = <<>> THEN <<>>
    ELSE split_into_segments(given[1], max) \o ExtendAll(Tail(given), max)

(***************************************************************************)
(* Word matching of the aligner.                                           *)
(***************************************************************************)
\* re.sub(r'[^\w\s]', '', s): keep word characters and whitespace
KeepWordChars(s) == SelectSeq(s, LAMBDA c : IsWordChar(c) \/ c \in WhiteSpace)

normalize_word_for_matching(word) == KeepWordChars(Lower(Strip(word)))

words_match(word1, word2) ==
    LET norm1 == normalize_word_for_matching(word1)
        norm2 == normalize_word_for_matching(word2)
    IN  \/ norm1 = norm2
        \/ /\ norm1 # <<>>
           /\ norm2 # <<>>
           /\ IsSubstr(norm1, norm2) \/ IsSubstr(norm2, norm1)
           /\ Abs(Len(norm1) - Len(norm2)) <= 2
        \/ /\ Len(norm1) >= 3
           /\ Len(norm2) >= 3
           /\ Slice(norm1, 0, 3) = Slice(norm2, 0, 3)

(***************************************************************************)
(* Program constants of the word-timing path, times in ticks.              *)
(***************************************************************************)
LookAhead == 5                  \* search ahead up to 5 words
MsThreshold == 1000             \* offset_sec > 1000: likely in milliseconds
MsPerSecond == 1000             \* offset_sec / 1000.0
NextMatchLookAhead == 3         \* range(segment_end_idx, segment_end_idx + 3)
WordsPerSecondTimes10 == 25     \* 2.5 words per second
SUBTITLE_MIN_DURATION == Ms(250)    \* 0.25

EmptyMap == [i \in {} |-> 0]

\* m[k] = v, for a dict m
MapPut(m, k, v) == [i \in DOMAIN m \cup {k} |-> IF i = k THEN v ELSE m[i]]

\* words[i], 0-based as in the source
At(s, i) == s[i + 1]

\* search window of 6 words instead of 5
SearchRange_six(ws, widx) == Min(LookAhead + 1, Len(ws) - widx)

\* search_range = min(5, len(words) - word_idx)
SearchRange(ws, widx) == Min(LookAhead, Len(ws) - widx)

RECURSIVE FindMatch(_, _, _, _, _)
\* the inner for loop over offset: the first matching offset, or -1
FindMatch(timing_text, ws, widx, offset, search_range) ==
    IF offset >= search_range \/ widx + offset >= Len(ws)
    THEN -1
    ELSE IF words_match(timing_text, At(ws, widx + offset))
         THEN offset
         ELSE FindMatch(timing_text, ws, widx, offset + 1, search_range)

\* unit detection that never converts
NormalizeTiming_noConvert(timing, script_word) ==
    [start |-> timing.offset, end |-> timing.offset + timing.duration,
     text |-> script_word]

\* the timing_map entry recorded for a matched timing (lines 159-171)
NormalizeTiming(timing, script_word) ==
    LET ms == timing.offset > MsThreshold * TicksPerSecond
        offset_sec == IF ms THEN timing.offset \div MsPerSecond ELSE timing.offset
        duration_sec == IF ms THEN timing.duration \div MsPerSecond ELSE timing.duration
    IN  [start |-> offset_sec, end |-> offset_sec + duration_sec, text |-> script_word]

\* a cursor that stays where it is after a match
AdvanceCursor_unmoved(widx, k) == widx

\* word_idx after a match at lookahead offset k (lines 174-178)
AdvanceCursor(widx, k) == IF k = 0 THEN widx + 1 ELSE widx + k + 1

(***************************************************************************)
(* Caption assembler of the word-timing path (lines 207-267).              *)
(***************************************************************************)
\* len(segment_words) / 2.5, in ticks
EstimatedDuration(word_count) ==
    (word_count * TicksPerSecond * 10) \div WordsPerSecondTimes10

\* the script positions of a unit that have a timing, in increasing order
MatchedIndices(tmap, start_idx, end_idx) ==
    {i \in start_idx..(end_idx - 1) : i \in DOMAIN tmap}

SetMin(S) == CHOOSE x \in S : \A y \in S : x <= y
SetMax(S) == CHOOSE x \in S : \A y \in S : x >= y

\* an unmatched unit that always ends at the words-per-second estimate
InterpolatedEnd_estimateOnly(tmap, start_time, word_count, end_idx, script_len) ==
    start_time + EstimatedDuration(word_count)

\* end of an unmatched unit: the estimate, or the start of the first matched
\* word among the next 3 script positions (lines 240-248)
InterpolatedEnd(tmap, start_time, word_count, end_idx, script_len) ==
    LET next == {i \in end_idx..(Min(end_idx + NextMatchLookAhead, script_len) - 1) :
                    i \in DOMAIN tmap}
    IN  IF next # {}
        THEN tmap[SetMin(next)].start
        ELSE start_time + EstimatedDuration(word_count)

\* a partial match that keeps the span of the matched words as it is
PartialEnd_noMinimum(start_time, end_time) == end_time

\* end of a partially matched unit (lines 249-253)
PartialEnd(start_time, end_time) ==
    IF end_time - start_time < SUBTITLE_MIN_DURATION
    THEN start_time + SUBTITLE_MIN_DURATION
    ELSE end_time

\* the entry appended for one segment with at least one word (lines 213-265)
AssembleEntry(segment, tmap, subs, widx, script_len, duration) ==
    LET segment_words == Split(segment)
        segment_start_idx == widx
        segment_end_idx == Min(widx + Len(segment_words), script_len)
        matched == MatchedIndices(tmap, segment_start_idx, segment_end_idx)
        start_time ==
            IF matched # {} THEN tmap[SetMin(matched)].start
            ELSE IF subs # <<>> THEN subs[Len(subs)].end
            ELSE 0
        end_time ==
            IF matched = {}
            THEN InterpolatedEnd(tmap, start_time, Len(segment_words),
                                 segment_end_idx, script_len)
            ELSE IF Cardinality(matched) < Len(segment_words)
            THEN PartialEnd(start_time, tmap[SetMax(matched)].end)
            ELSE tmap[SetMax(matched)].end
    IN  [start |-> Max(0, start_time),
         end |-> Min(end_time, duration),
         text |-> Strip(segment)]

\* subtitles[-1]['end'] = min(audio_duration, subtitles[-1]['end']) (line 271)
FinalEnd(last_end, duration) == Min(duration, last_end)

(***************************************************************************)
(* generate_from_script and the word-timing path, step by step.            *)
(***************************************************************************)
\* lines 44-50
Segment ==
    /\ pc = "start"
    /\ UNCHANGED <<schedulerVars, toolVars>>
    /\ segments' = IF subtitle_segments # <<>>
                   THEN ExtendAll(subtitle_segments, max_words)
                   ELSE split_into_segments(script, max_words)
    /\ pc' = "select"
    /\ UNCHANGED <<script, subtitle_segments, max_words, word_timings,
                   audio_duration, audio_exists, api_key, words, timing_map,
                   word_idx, timing_idx, skipped_timings, seg_idx,
                   wt_word_timings, durations, subtitles, den, consulted>>

\* entry of _generate_from_word_timings(script, segments, word_timings, D):
\* lines 137-141
EnterWordTimings(the_script, timings, called_before) ==
    /\ pc' = "align"
    /\ words' = Split(the_script)
    /\ wt_word_timings' = timings
    /\ timing_map' = EmptyMap
    /\ word_idx' = 0
    /\ timing_idx' = 0
    /\ skipped_timings' = <<>>
    /\ consulted' = consulted \o called_before \o <<<<"word_timings", "ok">>>>
    /\ UNCHANGED <<script, subtitle_segments, max_words, word_timings,
                   audio_duration, audio_exists, api_key, segments, seg_idx,
                   durations, subtitles, den>>

\* the priority test of generate_from_script seen as a function of its inputs
SelectBranch_audioFirst(timings, audio, key) ==
    IF audio THEN (IF key THEN "assemblyai" ELSE "audio_analysis")
    ELSE IF timings # <<>> THEN "word_timings"
    ELSE "proportional"

\* lines 53-75: which branch generate_from_script takes
SelectBranch(timings, audio, key) ==
    IF timings # <<>> THEN "word_timings"
    ELSE IF audio THEN (IF key THEN "assemblyai" ELSE "audio_analysis")
    ELSE "proportional"

Select ==
    /\ pc = "select"
    /\ UNCHANGED <<schedulerVars, toolVars>>
    /\ LET branch == SelectBranch(word_timings, audio_exists, api_key)
       IN  IF branch = "word_timings"
           THEN EnterWordTimings(script, word_timings, <<>>)
           ELSE /\ pc' = branch
                /\ UNCHANGED <<script, subtitle_segments, max_words, word_timings,
                               audio_duration, audio_exists, api_key, segments,
                               words, timing_map, word_idx, timing_idx,
                               skipped_timings, seg_idx, wt_word_timings,
                               durations, subtitles, den, consulted>>

\* one iteration of the matching loop (lines 144-185)
AlignStep ==
    /\ pc = "align"
    /\ UNCHANGED <<schedulerVars, toolVars>>
    /\ timing_idx < Len(wt_word_timings)
    /\ LET timing == At(wt_word_timings, timing_idx)
           timing_text == Strip(timing.text)
           k == FindMatch(timing_text, words, word_idx, 0,
                          SearchRange(words, word_idx))
       IN  IF k >= 0
           THEN /\ timing_map' = MapPut(timing_map, word_idx + k,
                                   NormalizeTiming(timing, At(words, word_idx + k)))
                /\ word_idx' = AdvanceCursor(word_idx, k)
                /\ UNCHANGED skipped_timings
           ELSE /\ skipped_timings' =
                        Append(skipped_timings, <<timing_idx, timing_text>>)
                /\ UNCHANGED <<timing_map, word_idx>>
    /\ timing_idx' = timing_idx + 1
    /\ UNCHANGED <<script, subtitle_segments, max_words, word_timings,
                   audio_duration, audio_exists, api_key, pc, segments, words,
                   seg_idx, wt_word_timings, durations, subtitles, den, consulted>>

\* after the matching loop (lines 187-205): statistics are printed only
AlignDone ==
    /\ pc = "align"
    /\ UNCHANGED <<schedulerVars, toolVars>>
    /\ timing_idx = Len(wt_word_timings)
    /\ pc' = "assemble"
    /\ subtitles' = <<>>
    /\ den' = 1
    /\ word_idx' = 0
    /\ seg_idx' = 0
    /\ UNCHANGED <<script, subtitle_segments, max_words, word_timings,
                   audio_duration, audio_exists, api_key, segments, words,
                   timing_map, timing_idx, skipped_timings, wt_word_timings,
                   durations, consulted>>

\* one iteration of the segment loop (lines 207-267)
AssembleStep ==
    /\ pc = "assemble"
    /\ UNCHANGED <<schedulerVars, toolVars>>
    /\ seg_idx < Len(segments)
    /\ LET segment == At(segments, seg_idx)
           segment_words == Split(segment)
       IN  IF segment_words = <<>>
           THEN UNCHANGED <<subtitles, word_idx>>
           ELSE /\ subtitles' = Append(subtitles,
                        AssembleEntry(segment, timing_map, subtitles, word_idx,
                                      Len(words), audio_duration))
                /\ word_idx' = Min(word_idx + Len(segment_words), Len(words))
    /\ seg_idx' = seg_idx + 1
    /\ UNCHANGED <<script, subtitle_segments, max_words, word_timings,
                   audio_duration, audio_exists, api_key, pc, segments, words,
                   timing_map, timing_idx, skipped_timings, wt_word_timings,
                   durations, den, consulted>>

\* after the segment loop (lines 269-274)
AssembleFinish ==
    /\ pc = "assemble"
    /\ UNCHANGED <<schedulerVars, toolVars>>
    /\ seg_idx = Len(segments)
    /\ subtitles' =
         IF subtitles # <<>>
         THEN [subtitles EXCEPT ![Len(subtitles)].end =
                                    FinalEnd(@, audio_duration)]
         ELSE subtitles
    /\ pc' = "done"
    /\ UNCHANGED <<script, subtitle_segments, max_words, word_timings,
                   audio_duration, audio_exists, api_key, segments, words,
                   timing_map, word_idx, timing_idx, skipped_timings, seg_idx,
                   wt_word_timings, durations, den, consulted>>

(***************************************************************************)
(* Proportional-estimate adapter (lines 586-645).                          *)
(*                                                                         *)
(* Weights are integers in units of 1/WeightScale.  With tw the total      *)
(* weight, a clamped duration d is kept as the integer d * tw; with T the  *)
(* sum of those, a rescaled duration and every time of the track is kept   *)
(* as an integer number of 1/T ticks, so den = T and D is D * T.           *)
(***************************************************************************)
WeightScale == 8 * 5
MinDur == Ms(350)       \* min_dur = 0.35
MaxDurCap == Ms(3000)   \* max_dur = min(3.0, audio_duration)
ScaledFloor == Ms(200)  \* max(0.2, d * scale)

\* word.endswith(chars)
EndsWith(word, chars) == word # <<>> /\ word[Len(word)] \in chars

\* word_weight(word) (lines 595-601), times WeightScale
word_weight(word) ==
    WeightScale + (Len(word) * WeightScale) \div 8
    + (IF EndsWith(word, {".", "!", "?"}) THEN (6 * WeightScale) \div 10
       ELSE IF EndsWith(word, {",", ";", ":"}) THEN (3 * WeightScale) \div 10
       ELSE 0)

RECURSIVE SumSeq(_)
SumSeq(s) == IF s = <<>> THEN 0 ELSE s[1] + SumSeq(Tail(s))

\* the first for loop (lines 611-621): clamped durations, times total_weight
RECURSIVE ClampedDurations(_, _, _, _, _)
ClampedDurations(segs, i, weights, widx, duration) ==
    IF i > Len(segs) THEN <<>>
    ELSE LET seg_len == Len(Split(segs[i]))
             total_weight == SumSeq(weights)
             seg_weight == SumSeq(Slice(weights, widx, widx + seg_len))
             raw_duration == duration * seg_weight
             max_dur == Min(MaxDurCap, duration)
         IN  IF seg_len = 0
             THEN ClampedDurations(segs, i + 1, weights, widx, duration)
             ELSE <<Max(MinDur * total_weight,
                        Min(max_dur * total_weight, raw_duration))>>
                  \o ClampedDurations(segs, i + 1, weights, widx + seg_len, duration)

\* durations = [max(0.2, d * scale) for d in durations] (lines 624-627),
\* in units of 1/T ticks where T = sum(clamped)
ScaledDurations(clamped, duration) ==
    [i \in DOMAIN clamped |->
        Max(ScaledFloor * SumSeq(clamped), clamped[i] * duration)]

\* an end that is not clamped to the audio duration
LayoutEnd_noClamp(start, dur, total) == start + dur

\* end = min(audio_duration, start + dur) (line 633)
LayoutEnd(start, dur, total) == Min(total, start + dur)

\* the second for loop (lines 629-639) over zip(segments, durations)
RECURSIVE Layout(_, _, _, _, _)
Layout(segs, durs, i, current_time, total) ==
    IF i > Min(Len(segs), Len(durs)) THEN <<>>
    ELSE LET end == LayoutEnd(current_time, durs[i], total)
         IN  <<[start |-> current_time, end |-> end, text |-> Strip(segs[i])]>>
             \o Layout(segs, durs, i + 1, end, total)

\* _generate_proportional_timings(script, segments, audio_duration)
Proportional ==
    /\ pc = "proportional"
    /\ UNCHANGED <<schedulerVars, toolVars>>
    /\ consulted' = Append(consulted, <<"proportional", "ok">>)
    /\ LET script_words == Split(script)
           weights == [i \in DOMAIN script_words |-> word_weight(script_words[i])]
           clamped == ClampedDurations(segments, 1, weights, 0, audio_duration)
           T == SumSeq(clamped)
           scaled == IF T > 0 THEN ScaledDurations(clamped, audio_duration)
                     ELSE clamped
           track == Layout(segments, scaled, 1, 0, audio_duration * T)
       IN  IF script_words = <<>> \/ audio_duration <= 0
           THEN /\ subtitles' = <<>>
                /\ durations' = <<>>
                /\ den' = 1
           ELSE /\ durations' = scaled
                /\ den' = IF T > 0 THEN T ELSE 1
                /\ subtitles' =
                     IF track # <<>>
                     THEN [track EXCEPT ![Len(track)].end = audio_duration * T]
                     ELSE track
    /\ pc' = "done"
    /\ UNCHANGED <<script, subtitle_segments, max_words, word_timings,
                   audio_duration, audio_exists, api_key, segments, words,
                   timing_map, word_idx, timing_idx, skipped_timings, seg_idx,
                   wt_word_timings>>

(***************************************************************************)
(* AssemblyAI transcription (lines 337-399).  The service is external: its *)
(* outcome and the words it reports are chosen nondeterministically.       *)
(***************************************************************************)
\* _clean_script_for_assemblyai on the model's alphabet, which has no HTML
\* entity and no zero-width character: re.sub(r'\s+', ' ', s).strip()
clean_script_for_assemblyai(s) == Join(Split(s))

\* lines 367-374: transcript words (start, end in ms) to word timings
TranscriptTimings(transcript) ==
    [i \in DOMAIN transcript |->
        [text |-> transcript[i].text,
         offset |-> (transcript[i].start * TicksPerSecond) \div MsPerSecond,
         duration |-> ((transcript[i].end - transcript[i].start) * TicksPerSecond)
                          \div MsPerSecond]]

AssemblyAIFailures ==
    {"no_words",            \* transcript.words empty (line 376)
     "import_error",        \* assemblyai not installed (line 385)
     "transcript_error",    \* transcript.status == error (line 363)
     "error_401",           \* re-raised (line 392), caught at line 60
     "error_429",           \* re-raised (line 394), caught at line 60
     "error_other"}         \* any other exception (line 395)

Transcripts ==
    {<<[text |-> <<"H","e","l","l","o">>, start |-> 0, end |-> 500]>>,
     <<[text |-> <<"H","e","l","l","o">>, start |-> 0, end |-> 500],
       [text |-> <<"w","o","r","l","d">>, start |-> 1200, end |-> 2000]>>}

\* _generate_from_assemblyai succeeds with word timings (lines 380-383)
AssemblyAIWords ==
    /\ pc = "assemblyai"
    /\ UNCHANGED <<schedulerVars, toolVars>>
    /\ \E transcript \in Transcripts :
          EnterWordTimings(clean_script_for_assemblyai(script),
                           TranscriptTimings(transcript),
                           <<<<"assemblyai", "words">>>>)

\* every other outcome ends in _generate_from_audio_analysis, called from
\* line 378, 387, 399 or, after a re-raise, from line 69
AssemblyAIFails ==
    /\ pc = "assemblyai"
    /\ UNCHANGED <<schedulerVars, toolVars>>
    /\ \E outcome \in AssemblyAIFailures :
          consulted' = Append(consulted, <<"assemblyai", outcome>>)
    /\ pc' = "audio_analysis"
    /\ UNCHANGED <<script, subtitle_segments, max_words, word_timings,
                   audio_duration, audio_exists, api_key, segments, words,
                   timing_map, word_idx, timing_idx, skipped_timings, seg_idx,
                   wt_word_timings, durations, subtitles, den>>

(***************************************************************************)
(* Acoustic adapter (lines 401-547).  The energy analysis of the waveform  *)
(* is external: it fails, finds nothing, or yields a list of speech        *)
(* intervals.  The allocation of units to speech time is computed; times   *)
(* are integers in units of 1/total_weight ticks.                          *)
(***************************************************************************)
\* _calculate_word_weights (lines 574-584), times WeightScale
calculate_word_weight(word) ==
    WeightScale + (Len(word) * WeightScale) \div 10
    + (IF EndsWith(word, {".", "!", "?"}) THEN (5 * WeightScale) \div 10
       ELSE IF EndsWith(word, {",", ";", ":"}) THEN (2 * WeightScale) \div 10
       ELSE 0)

\* _map_speech_time_to_audio (lines 549-572); speech_time and the result in
\* units of 1/tw ticks, the intervals in ticks
RECURSIVE MapLoop(_, _, _, _, _)
MapLoop(speech_time, speech_segments, i, cumulative_speech, tw) ==
    IF i > Len(speech_segments)
    THEN speech_segments[Len(speech_segments)][2] * tw
    ELSE LET seg_start == speech_segments[i][1] * tw
             seg_duration == (speech_segments[i][2] - speech_segments[i][1]) * tw
         IN  IF cumulative_speech + seg_duration >= speech_time
             THEN IF seg_duration > 0
                  THEN seg_start + (speech_time - cumulative_speech)
                  ELSE seg_start
             ELSE MapLoop(speech_time, speech_segments, i + 1,
                          cumulative_speech + seg_duration, tw)

map_speech_time_to_audio(speech_time, speech_segments, total_speech_time, tw) ==
    IF speech_segments = <<>> \/ total_speech_time <= 0
    THEN speech_time
    ELSE MapLoop(Max(0, Min(speech_time, total_speech_time)),
                 speech_segments, 1, 0, tw)

\* the segment loop of the acoustic adapter (lines 505-534)
RECURSIVE AcousticLoop(_, _, _, _, _, _, _)
AcousticLoop(segs, i, weights, widx, cumulative, speech_segments, duration) ==
    IF i > Len(segs) THEN <<>>
    ELSE LET seg_len == Len(Split(segs[i]))
             tw == SumSeq(weights)
             total_speech_time ==
                 SumSeq([j \in DOMAIN speech_segments |->
                            speech_segments[j][2] - speech_segments[j][1]]) * tw
             seg_weight == IF widx < Len(weights)
                           THEN SumSeq(Slice(weights, widx, widx + seg_len))
                           ELSE seg_len * WeightScale
             \* total_speech_time * (seg_weight / total_weight)
             segment_speech_duration == (total_speech_time \div tw) * seg_weight
             start_time == map_speech_time_to_audio(cumulative, speech_segments,
                                                    total_speech_time, tw)
             mapped_end == map_speech_time_to_audio(
                               cumulative + segment_speech_duration,
                               speech_segments, total_speech_time, tw)
             end_time == IF mapped_end - start_time < SUBTITLE_MIN_DURATION * tw
                         THEN Min(duration * tw,
                                  start_time + SUBTITLE_MIN_DURATION * tw)
                         ELSE mapped_end
         IN  IF seg_len = 0
             THEN AcousticLoop(segs, i + 1, weights, widx, cumulative,
                               speech_segments, duration)
             ELSE <<[start |-> start_time, end |-> end_time,
                     text |-> Strip(segs[i])]>>
                  \o AcousticLoop(segs, i + 1, weights, widx + seg_len,
                                  cumulative + segment_speech_duration,
                                  speech_segments, duration)

\* speech intervals the detection can report for an audio of the given
\* length: increasing, disjoint, the last one possibly reaching the end
SpeechSegmentLists(duration) ==
    {sl \in {<<<<0, duration>>>>,
             <<<<Ms(100), Ms(900)>>, <<Ms(1500), duration>>>>,
             <<<<Ms(200), Ms(700)>>>>} :
        \A i \in DOMAIN sl : sl[i][1] < sl[i][2] /\ sl[i][2] <= duration}

\* analysis that yields speech intervals (lines 492-541)
AudioAnalysisSpeech ==
    /\ pc = "audio_analysis"
    /\ UNCHANGED <<schedulerVars, toolVars>>
    /\ consulted' = Append(consulted, <<"audio_analysis", "speech">>)
    /\ \E speech_segments \in SpeechSegmentLists(audio_duration) :
          LET script_words == Split(script)
              weights == [i \in DOMAIN script_words |->
                             calculate_word_weight(script_words[i])]
              track == AcousticLoop(segments, 1, weights, 0, 0,
                                    speech_segments, audio_duration)
          IN  /\ den' = IF weights # <<>> THEN SumSeq(weights) ELSE 1
              /\ subtitles' =
                   IF track # <<>>
                   THEN [track EXCEPT ![Len(track)].end =
                                          audio_duration * SumSeq(weights)]
                   ELSE track
    /\ pc' = "done"
    /\ UNCHANGED <<script, subtitle_segments, max_words, word_timings,
                   audio_duration, audio_exists, api_key, segments, words,
                   timing_map, word_idx, timing_idx, skipped_timings, seg_idx,
                   wt_word_timings, durations>>

AudioAnalysisFailures ==
    {"no_energies",     \* line 432
     "no_speech",       \* line 488
     "error"}           \* any exception (line 543)

\* analysis that falls back to the proportional adapter (lines 434, 490, 547)
AudioAnalysisFallsBack ==
    /\ pc = "audio_analysis"
    /\ UNCHANGED <<schedulerVars, toolVars>>
    /\ \E outcome \in AudioAnalysisFailures :
          consulted' = Append(consulted, <<"audio_analysis", outcome>>)
    /\ pc' = "proportional"
    /\ UNCHANGED <<script, subtitle_segments, max_words, word_timings,
                   audio_duration, audio_exists, api_key, segments, words,
                   timing_map, word_idx, timing_idx, skipped_timings, seg_idx,
                   wt_word_timings, durations, subtitles, den>>

(***************************************************************************)
(* The daily scheduler (server_scheduler.py).                              *)
(*                                                                         *)
(* Time is Pacific wall-clock time in seconds since midnight of day 0,     *)
(* with days of DaySeconds seconds; a pack directory is named after its    *)
(* day.  Fields of a manifest that the scheduler writes but never reads    *)
(* (date, output_dir, generated_at, uploaded_at, youtube ids) are left     *)
(* out.                                                                    *)
(***************************************************************************)
PACK_RETENTION_DAYS == 3
DaySeconds == 24 * 3600
min_interval_seconds == 3600
max_consecutive_failures == 5
RetrySleepSeconds == 2

\* the day a time lies in (_today_str)
DayOf(t) == t \div DaySeconds

\* _next_midnight_pacific() called at time t
next_midnight_pacific(t) == (DayOf(t) + 1) * DaySeconds

\* the last time the model follows the process to
Horizon == (MaxDays + 1) * DaySeconds

\* an exception: its type and the keywords its lower-cased message contains
Err(type, text) == [type |-> type, words |-> text]

\* the ImportError of "from src.youtube_uploader import QuotaExceededError";
\* its message names the missing class
QuotaImportError == Err("ImportError", {"quota", "exceeded"})

\* whether src/youtube_uploader.py defines a name QuotaExceededError
QuotaExceededErrorDefined == FALSE

CreditKeywords ==
    {"quota", "credit", "insufficient", "limit", "billing", "exceeded", "rate limit"}

TtsKeywords ==
    {"tts", "text-to-speech", "text to speech", "narration", "audio generation",
     "generate audio", "speech", "gemini.*tts", "no audio content",
     "audio.*failed", "narration.*failed", "generate.*failed",
     "gemini api keys failed", "no gemini api keys"}

TtsContextKeywords == {"gemini", "api key", "audio", "narration", "tts"}

\* the outcome of a call: a value returned or an exception raised
Returns(v) == [raised |-> FALSE, value |-> v]
Raises(e) == [raised |-> TRUE, err |-> e]

\* _is_credit_error(err): the import of line 108 runs first
is_credit_error(err) ==
    IF ~QuotaExceededErrorDefined
    THEN Raises(QuotaImportError)
    ELSE Returns(\/ err.type = "QuotaExceededError"
                 \/ err.words \cap CreditKeywords # {})

\* _is_tts_error(err): the module never imports traceback, so the look at
\* the traceback ends in a NameError that the bare except swallows
is_tts_error(err) ==
    \/ err.words \cap TtsKeywords # {}
    \/ /\ err.type \in {"RuntimeError", "ValueError", "ImportError"}
       /\ err.words \cap TtsContextKeywords # {}

\* how one pass through the except clause of the generation loop ends
\* (lines 327-350): its exit and the new consecutive_failures
ExceptClause(e, failures) ==
    LET credit == is_credit_error(e)
    IN  IF credit.raised
        THEN [exit |-> "raise", err |-> credit.err, failures |-> failures]
        ELSE IF credit.value
        THEN [exit |-> "break", failures |-> failures]
        ELSE IF is_tts_error(e)
        THEN [exit |-> "continue", failures |-> 0]
        ELSE IF failures + 1 >= max_consecutive_failures
        THEN [exit |-> "break", failures |-> failures + 1]
        ELSE [exit |-> "continue", failures |-> failures + 1]

\* a handling of a result without success that tests the narration
\* classification first
FailedResult_narrationFirst(text, failures) ==
    IF is_tts_error(Err("Exception", text))
    THEN [exit |-> "continue", failures |-> 0]
    ELSE ExceptClause(Err("Exception", text), failures)

\* how the handling of a result without success ends (lines 286-311); an
\* exception raised while classifying is caught by the except clause
FailedResult(text, failures) ==
    LET err_exception == Err("Exception", text)
        credit == is_credit_error(err_exception)
    IN  IF credit.raised
        THEN ExceptClause(credit.err, failures)
        ELSE IF credit.value
        THEN [exit |-> "break", failures |-> failures]
        ELSE IF is_tts_error(err_exception)
        THEN [exit |-> "continue", failures |-> 0]
        ELSE IF failures + 1 >= max_consecutive_failures
        THEN [exit |-> "break", failures |-> failures + 1]
        ELSE [exit |-> "continue", failures |-> failures + 1]

\* how the except clause of the upload loop ends once the manifest is saved
\* (lines 264-271): both branches break
UploadExceptClause(e) ==
    LET credit == is_credit_error(e)
    IN  IF credit.raised
        THEN [exit |-> "raise", err |-> credit.err]
        ELSE [exit |-> "break"]

\* a manifest file: absent, written in full, or cut short by a kill while
\* json.dump was writing into the file open(..., "w") had truncated
NoFile == [state |-> "absent", videos |-> <<>>]
Written(videos) == [state |-> "written", videos |-> videos]
Torn == [state |-> "torn", videos |-> <<>>]

\* _load_manifest(pack_dir) (lines 92-97)
load_manifest(file) ==
    IF file.state = "torn" THEN Raises(Err("JSONDecodeError", {}))
    ELSE Returns([videos |-> file.videos])

\* the entry appended for a generated video (lines 315-324)
NewVideo(day, n) == [video_path |-> <<day, n>>, uploaded |-> FALSE]

\* pending = [v for v in videos if not v.get("uploaded")] (line 218)
RECURSIVE PendingFrom(_, _)
PendingFrom(videos, i) ==
    IF i > Len(videos) THEN <<>>
    ELSE IF videos[i].uploaded THEN PendingFrom(videos, i + 1)
    ELSE <<i>> \o PendingFrom(videos, i + 1)

\* a pending list that forgets the uploaded flag
Pending_everyVideo(videos) == [i \in 1..Len(videos) |-> i]

Pending(videos) == PendingFrom(videos, 1)

\* an interval that is the whole day whatever the number of videos
Interval_wholeDay(now_flag, video_count) ==
    IF now_flag THEN [num |-> 0, den |-> 1]
    ELSE [num |-> DaySeconds, den |-> 1]

\* interval_seconds (lines 224-231) as the fraction num / den
Interval(now_flag, video_count) ==
    IF now_flag THEN [num |-> 0, den |-> 1]
    ELSE LET n == Max(1, video_count)
         IN  [num |-> Max(DaySeconds, min_interval_seconds * n), den |-> n]

\* the first whole second at or after start + interval * i (line 237)
ScheduledSecond(start, interval, i) ==
    start + (interval.num * i + interval.den - 1) \div interval.den

\* _cleanup_old_packs() on day today (lines 162-185)
cleanup_old_packs(files, today) ==
    [d \in DOMAIN files |->
        IF d < today - (PACK_RETENTION_DAYS - 1) THEN NoFile ELSE files[d]]

\* what the environment of the scheduler delivers
GenDurations == {30 * 60}                 \* seconds one generate_video call takes
SlowUpload == 15 * 3600 + 30 * 60         \* an upload that stalls for 15.5 hours
UploadDurations == {60, SlowUpload}       \* seconds one _upload_video call takes
RestartDelays == {60}                    \* seconds from the end of a process to its restart
StartClocks == {20 * 3600}                \* time of day of the first start

\* error texts of results without success, as the keywords they contain
FailedResultPool == {{}, {"quota"}, {"tts"}, {"tts", "limit", "rate limit"}}

\* exceptions generate_video raises
GenerateErrorPool == {Err("RuntimeError", {"gemini"}), Err("Exception", {"quota"})}

\* exceptions _upload_video raises
UploadErrorPool == {Err("Exception", {"quota"}), Err("Exception", {})}

NoResult == [kind |-> "none"]
NoException == [site |-> "none"]
NoInterval == [num |-> 0, den |-> 1]
NoManifest == [videos |-> <<>>]

\* the memory of a process that is not running
MemoryCleared ==
    /\ manifest' = NoManifest
    /\ pack_dir' = 0
    /\ cycle_start' = 0
    /\ consecutive_failures' = 0
    /\ result' = NoResult
    /\ generate_calls' = 0
    /\ pending' = <<>>
    /\ idx' = 0
    /\ interval_seconds' = NoInterval
    /\ slots_start_time' = 0

\* no generate_video call is running and the cache file does not exist
PipelineIdle ==
    /\ pipe_pc = "off"
    /\ attempt = 0
    /\ failed_story_ids = <<>>
    /\ story = 0
    /\ stage = "none"
    /\ used_ids = <<>>
    /\ pipe_result = [kind |-> "none"]
    /\ fetch_log = <<>>
    /\ narrated = {}
    /\ add_log = <<>>

\* no _resumable_upload call is running
UploaderIdle ==
    /\ up_pc = "off"
    /\ retry = 0
    /\ response = "None"
    /\ up_error = FALSE
    /\ chunk_log = <<>>

\* no _cleanup_old_packs call is running
CleanupIdle ==
    /\ clean_pc = "off"
    /\ today_date = <<1, 1, 1>>
    /\ daily_packs = {}
    /\ packs_before = {}
    /\ visited = {}

ToolsIdle == PipelineIdle /\ UploaderIdle /\ CleanupIdle

\* the scheduler has never been started and its disk is empty
SchedulerNotStarted ==
    /\ clock = 0
    /\ start_now = FALSE
    /\ upload_all_now = FALSE
    /\ sched_pc = "off"
    /\ packs = [d \in 0..(MaxDays + 1) |-> NoFile]
    /\ youtube = <<>>
    /\ manifest = NoManifest
    /\ pack_dir = 0
    /\ cycle_start = 0
    /\ consecutive_failures = 0
    /\ result = NoResult
    /\ generate_calls = 0
    /\ pending = <<>>
    /\ idx = 0
    /\ interval_seconds = NoInterval
    /\ slots_start_time = 0
    /\ upload_log = <<>>
    /\ runs = 0
    /\ escaped = NoException

\* the process ends with exception e escaping from run_forever
Escapes(e, site) ==
    /\ sched_pc' = "dead"
    /\ escaped' = [site |-> site, err |-> e]

\* run_forever up to its loop (lines 357-372)
Boot ==
    /\ sched_pc = "boot"
    /\ clock' = IF start_now THEN clock ELSE next_midnight_pacific(clock)
    /\ clock' <= Horizon
    /\ sched_pc' = "cycle"
    /\ UNCHANGED <<start_now, upload_all_now, packs, youtube, manifest, pack_dir,
                   cycle_start, consecutive_failures, result, generate_calls,
                   pending, idx, interval_seconds, slots_start_time, upload_log, runs,
                   escaped>>
    /\ UNCHANGED <<vars, toolVars>>

\* the head of a daily cycle (lines 375-392), and of _generate_daily_pack
\* (lines 276-281) when the pack has no videos
CycleStart ==
    /\ sched_pc = "cycle"
    /\ DayOf(clock) <= MaxDays
    /\ cycle_start' = clock
    /\ pack_dir' = DayOf(clock)
    /\ packs' = cleanup_old_packs(packs, DayOf(clock))
    /\ generate_calls' = 0
    /\ consecutive_failures' = 0
    /\ LET loaded == load_manifest(packs'[DayOf(clock)])
       IN  IF loaded.raised
           THEN /\ Escapes(loaded.err, "load")
                /\ UNCHANGED manifest
           ELSE /\ manifest' = loaded.value
                /\ sched_pc' = IF loaded.value.videos = <<>>
                               THEN "generate" ELSE "schedule"
                /\ UNCHANGED escaped
    /\ UNCHANGED <<clock, start_now, upload_all_now, youtube, result, pending,
                   idx, interval_seconds, slots_start_time, upload_log, runs>>
    /\ UNCHANGED <<vars, toolVars>>

\* result = pipeline.generate_video() (line 285)
GenerateCall ==
    /\ sched_pc = "generate"
    /\ \E d \in GenDurations :
          /\ clock' = clock + d
          /\ clock' <= Horizon
    /\ \/ /\ Len(manifest.videos) < MaxVideos
          /\ result' = [kind |-> "ok"]
       \/ \E text \in FailedResultPool :
              result' = [kind |-> "failed", words |-> text]
       \/ \E e \in GenerateErrorPool :
              result' = [kind |-> "raised", err |-> e]
    /\ generate_calls' = generate_calls + 1
    /\ sched_pc' = "generated"
    /\ UNCHANGED <<start_now, upload_all_now, packs, youtube, manifest, pack_dir,
                   cycle_start, consecutive_failures, pending, idx,
                   interval_seconds, slots_start_time, upload_log, runs, escaped>>
    /\ UNCHANGED <<vars, toolVars>>

\* where run_forever goes when _generate_daily_pack returns (lines 389-392)
AfterGeneration(videos) == IF videos = <<>> THEN "sleep" ELSE "schedule"

\* a loop that goes on to the uploads after its first video
AfterSuccess_once(videos) == "schedule"

\* where the generation loop goes after a success: while True has no other
\* exit than the breaks of the failure branches (lines 283, 313-326)
AfterSuccess(videos) == "generate"

\* the rest of one pass of the generation loop (lines 286-350)
GenerateHandle ==
    /\ sched_pc = "generated"
    /\ IF result.kind = "ok"
       THEN LET videos == Append(manifest.videos,
                                 NewVideo(pack_dir, Len(manifest.videos) + 1))
            IN  /\ consecutive_failures' = 0
                /\ manifest' = [manifest EXCEPT !.videos = videos]
                /\ packs' = [packs EXCEPT ![pack_dir] = Written(videos)]
                /\ sched_pc' = AfterSuccess(videos)
                /\ UNCHANGED <<clock, escaped>>
       ELSE LET end == IF result.kind = "failed"
                       THEN FailedResult(result.words, consecutive_failures)
                       ELSE ExceptClause(result.err, consecutive_failures)
            IN  /\ consecutive_failures' = end.failures
                /\ UNCHANGED <<manifest, packs>>
                /\ IF end.exit = "raise"
                   THEN /\ Escapes(end.err, "generation")
                        /\ UNCHANGED clock
                   ELSE IF end.exit = "break"
                   THEN /\ sched_pc' = AfterGeneration(manifest.videos)
                        /\ UNCHANGED <<clock, escaped>>
                   ELSE /\ clock' = clock + RetrySleepSeconds
                        /\ sched_pc' = "generate"
                        /\ UNCHANGED escaped
    /\ result' = NoResult
    /\ UNCHANGED <<start_now, upload_all_now, youtube, pack_dir, cycle_start,
                   generate_calls, pending, idx, interval_seconds, slots_start_time,
                   upload_log, runs>>
    /\ UNCHANGED <<vars, toolVars>>

\* the head of _schedule_uploads (lines 217-233)
StartUploads ==
    /\ sched_pc = "schedule"
    /\ pending' = Pending(manifest.videos)
    /\ IF pending' = <<>>
       THEN /\ sched_pc' = "sleep"
            /\ UNCHANGED <<interval_seconds, slots_start_time>>
       ELSE /\ interval_seconds' = Interval(upload_all_now, Len(manifest.videos))
            /\ slots_start_time' = clock
            /\ sched_pc' = "slot"
    /\ idx' = 0
    /\ UNCHANGED <<clock, start_now, upload_all_now, packs, youtube, manifest,
                   pack_dir, cycle_start, consecutive_failures, result,
                   generate_calls, upload_log, runs, escaped>>
    /\ UNCHANGED <<vars, toolVars>>

\* the wait for the slot of pending[idx] (lines 235-241), or the end of the loop
UploadSlot ==
    /\ sched_pc = "slot"
    /\ IF idx = Len(pending)
       THEN /\ sched_pc' = "sleep"
            /\ UNCHANGED clock
       ELSE /\ clock' =
                 IF /\ interval_seconds.num > 0
                    /\ slots_start_time * interval_seconds.den + interval_seconds.num * idx
                         > clock * interval_seconds.den
                 THEN ScheduledSecond(slots_start_time, interval_seconds, idx)
                 ELSE clock
            /\ clock' <= Horizon
            /\ sched_pc' = "upload"
    /\ UNCHANGED <<start_now, upload_all_now, packs, youtube, manifest, pack_dir,
                   cycle_start, consecutive_failures, result, generate_calls,
                   pending, idx, interval_seconds, slots_start_time, upload_log, runs,
                   escaped>>
    /\ UNCHANGED <<vars, toolVars>>

\* upload_result = _upload_video(...) (lines 245-249)
UploadCall ==
    /\ sched_pc = "upload"
    /\ LET video == manifest.videos[pending[idx + 1]]
       IN  /\ \/ /\ result' = [kind |-> "ok"]
                 /\ youtube' = Append(youtube, video.video_path)
              \/ /\ \E e \in UploadErrorPool :
                        result' = [kind |-> "raised", err |-> e]
                 /\ UNCHANGED youtube
           /\ upload_log' = Append(upload_log,
                  [video_path |-> video.video_path, start |-> clock,
                   run |-> runs, cycle |-> cycle_start, result |-> result'])
    /\ \E d \in UploadDurations :
          /\ clock' = clock + d
          /\ clock' <= Horizon
    /\ sched_pc' = "uploaded"
    /\ UNCHANGED <<start_now, upload_all_now, packs, manifest, pack_dir,
                   cycle_start, consecutive_failures, generate_calls, pending,
                   idx, interval_seconds, slots_start_time, runs, escaped>>
    /\ UNCHANGED <<vars, toolVars>>

\* an upload handler that goes on to the next entry after a failure
AfterUploadFailure_nextEntry(e) == [exit |-> "continue"]

\* how the loop goes on after a failed upload (lines 264-271)
AfterUploadFailure(e) == UploadExceptClause(e)

\* a success handler that leaves the file as it is
SaveUploaded_memoryOnly(files, day, videos) == files

\* _save_manifest after a successful upload (line 256)
SaveUploaded(files, day, videos) == [files EXCEPT ![day] = Written(videos)]

\* the rest of one pass of the upload loop (lines 251-271)
UploadHandle ==
    /\ sched_pc = "uploaded"
    /\ IF result.kind = "ok"
       THEN LET videos == [manifest.videos EXCEPT
                              ![pending[idx + 1]].uploaded = TRUE]
            IN  /\ manifest' = [manifest EXCEPT !.videos = videos]
                /\ packs' = SaveUploaded(packs, pack_dir, videos)
                /\ idx' = idx + 1
                /\ sched_pc' = "slot"
                /\ UNCHANGED escaped
       ELSE LET end == AfterUploadFailure(result.err)
            IN  /\ packs' = [packs EXCEPT ![pack_dir] = Written(manifest.videos)]
                /\ UNCHANGED manifest
                /\ IF end.exit = "raise"
                   THEN /\ Escapes(end.err, "upload")
                        /\ UNCHANGED idx
                   ELSE IF end.exit = "break"
                   THEN /\ sched_pc' = "sleep"
                        /\ UNCHANGED <<idx, escaped>>
                   ELSE /\ sched_pc' = "slot"
                        /\ idx' = idx + 1
                        /\ UNCHANGED escaped
    /\ result' = NoResult
    /\ UNCHANGED <<clock, start_now, upload_all_now, youtube, pack_dir,
                   cycle_start, consecutive_failures, generate_calls, pending,
                   interval_seconds, slots_start_time, upload_log, runs>>
    /\ UNCHANGED <<vars, toolVars>>

\* the sleep until the next midnight (lines 394-401)
Sleep ==
    /\ sched_pc = "sleep"
    /\ clock' = next_midnight_pacific(clock)
    /\ clock' <= Horizon
    /\ sched_pc' = "cycle"
    /\ UNCHANGED <<start_now, upload_all_now, packs, youtube, manifest, pack_dir,
                   cycle_start, consecutive_failures, result, generate_calls,
                   pending, idx, interval_seconds, slots_start_time, upload_log, runs,
                   escaped>>
    /\ UNCHANGED <<vars, toolVars>>

Running ==
    sched_pc \in {"boot", "cycle", "generate", "generated", "schedule", "slot",
                  "upload", "uploaded", "sleep"}

\* the next step of the process writes the manifest file
AboutToSave ==
    \/ sched_pc = "generated" /\ result.kind = "ok"
    \/ sched_pc = "uploaded"

\* the process is killed between two steps
Kill ==
    /\ Running
    /\ sched_pc' = "killed"
    /\ MemoryCleared
    /\ UNCHANGED <<clock, start_now, upload_all_now, packs, youtube, upload_log,
                   runs, escaped>>
    /\ UNCHANGED <<vars, toolVars>>

\* the process is killed inside _save_manifest, after open(..., "w") has
\* truncated the file and before json.dump has written all of it
KillDuringSave ==
    /\ AboutToSave
    /\ packs' = [packs EXCEPT ![pack_dir] = Torn]
    /\ sched_pc' = "killed"
    /\ MemoryCleared
    /\ UNCHANGED <<clock, start_now, upload_all_now, youtube, upload_log, runs,
                   escaped>>
    /\ UNCHANGED <<vars, toolVars>>

\* the process is started again after it was killed or an exception ended it
Restart ==
    /\ sched_pc \in {"killed", "dead"}
    /\ runs < MaxRuns
    /\ \E d \in RestartDelays :
          /\ clock' = clock + d
          /\ clock' <= Horizon
    /\ runs' = runs + 1
    /\ sched_pc' = "boot"
    /\ escaped' = NoException
    /\ MemoryCleared
    /\ UNCHANGED <<start_now, upload_all_now, packs, youtube, upload_log>>
    /\ UNCHANGED <<vars, toolVars>>

(***************************************************************************)
(* Inputs.                                                                 *)
(***************************************************************************)
SeqsUpTo(S, n) == UNION {[1..k -> S] : k \in 0..n}

Hello == <<"H","e","l","l","o">>
HelloDot == <<"H","e","l","l","o",".">>
World == <<"W","o","r","l","d">>
today == <<"t","o","d","a","y">>
help == <<"h","e","l","p">>
zz == <<"z","z">>
aa == <<"a","a">>
bb == <<"b","b">>
cc == <<"c","c">>
dd == <<"d","d">>
ee == <<"e","e">>
ff == <<"f","f">>
gg == <<"g","g">>

\* scripts of the word-timing runs
WTScripts ==
    {Join(<<Hello, World, today>>),
     Join(<<aa, bb, cc, dd, ee, ff, gg>>),
     Join(<<today, HelloDot>>)}

\* word timings (text, offset, duration) as a timing source reports them;
\* an offset above MsThreshold * TicksPerSecond is a count of milliseconds
T(text, offset, duration) ==
    [text |-> text, offset |-> offset, duration |-> duration]

TimingPool ==
    {T(Hello, Ms(0), Ms(500)),
     T(Hello, Ms(2000), Ms(500)),
     T(World, Ms(1200000), Ms(800000)),
     T(World, Ms(500), Ms(100)),
     T(today, Ms(3500), Ms(500)),
     T(today, Ms(-200), Ms(100)),
     T(today, Ms(2500000), Ms(400000)),
     T(help, Ms(1000000), Ms(500)),
     T(zz, Ms(100), Ms(100)),
     T(ee, Ms(1000), Ms(200)),
     T(<<" ">> \o ff, Ms(2000), Ms(200))}

AudioDurations == {Ms(1000), Ms(3000)}

\* character-level scripts of the segmenter and proportional runs
TextAlphabet == {"a", ".", " ", "\n"}
TextScripts ==
    SeqsUpTo(TextAlphabet, MaxChars)
    \cup {Join(<<HelloDot, World, today>>), Join(<<aa, bb, cc, dd, ee>>),
          Join(<<aa \o <<",">>, bb \o <<"?">>, today>>)}

TextDurations == {Ms(-1000), Ms(0), Ms(100), Ms(300), Ms(1000), Ms(3000), Ms(20000)}

InitEngine ==
    /\ pc = "start"
    /\ segments = <<>>
    /\ words = <<>>
    /\ timing_map = EmptyMap
    /\ word_idx = 0
    /\ timing_idx = 0
    /\ skipped_timings = <<>>
    /\ seg_idx = 0
    /\ wt_word_timings = <<>>
    /\ durations = <<>>
    /\ subtitles = <<>>
    /\ den = 1
    /\ consulted = <<>>

(***************************************************************************)
(* Word-timing runs: generate_from_script with a non-empty timing list.    *)
(***************************************************************************)
InitWT ==
    /\ script \in WTScripts
    /\ subtitle_segments = <<>>
    /\ max_words \in 1..MaxWindow
    /\ word_timings \in SeqsUpTo(TimingPool, MaxTimings) \ {<<>>}
    /\ audio_duration \in AudioDurations
    /\ audio_exists = FALSE
    /\ api_key = FALSE
    /\ InitEngine
    /\ SchedulerNotStarted
    /\ ToolsIdle

NextWT == Segment \/ Select \/ AlignStep \/ AlignDone \/ AssembleStep \/ AssembleFinish

SpecWT == InitWT /\ [][NextWT]_vars

(***************************************************************************)
(* Text runs: the segmenter and the proportional adapter, no timings and   *)
(* no audio file.                                                          *)
(***************************************************************************)
InitText ==
    /\ script \in TextScripts
    /\ subtitle_segments = <<>>
    /\ max_words \in 1..MaxWindow
    /\ word_timings = <<>>
    /\ audio_duration \in TextDurations
    /\ audio_exists = FALSE
    /\ api_key = FALSE
    /\ InitEngine
    /\ SchedulerNotStarted
    /\ ToolsIdle

NextText == Segment \/ Select \/ Proportional

SpecText == InitText /\ [][NextText]_vars

(***************************************************************************)
(* Selection runs: every combination of the inputs that decide the         *)
(* adapter, and every outcome of the external services.                    *)
(***************************************************************************)
SelScripts ==
    {<<Join(<<Hello, World, today>>), <<>>>>,
     <<Join(<<Hello, World, today>>), <<Join(<<Hello, World>>), today>>>>,
     <<<<" ">> \o Hello \o <<" ", "\n">> \o World, <<>>>>,
     <<<<>>, <<>>>>}

InitSel ==
    /\ \E p \in SelScripts : script = p[1] /\ subtitle_segments = p[2]
    /\ max_words \in 1..MaxWindow
    /\ word_timings \in {<<>>, <<T(Hello, Ms(0), Ms(500))>>,
                         <<T(World, Ms(1200), Ms(800)), T(Hello, Ms(0), Ms(500))>>}
    /\ audio_duration \in AudioDurations
    /\ audio_exists \in BOOLEAN
    /\ api_key \in BOOLEAN
    /\ InitEngine
    /\ SchedulerNotStarted
    /\ ToolsIdle

Next ==
    \/ Segment
    \/ Select
    \/ AlignStep
    \/ AlignDone
    \/ AssembleStep
    \/ AssembleFinish
    \/ AssemblyAIWords
    \/ AssemblyAIFails
    \/ AudioAnalysisSpeech
    \/ AudioAnalysisFallsBack
    \/ Proportional

Spec == InitSel /\ [][Next]_vars

(***************************************************************************)
(* Scheduler runs: the process is started, killed and restarted.           *)
(***************************************************************************)
\* no caption track is being generated
CaptionsIdle ==
    /\ script = <<>>
    /\ subtitle_segments = <<>>
    /\ max_words = 1
    /\ word_timings = <<>>
    /\ audio_duration = 0
    /\ audio_exists = FALSE
    /\ api_key = FALSE
    /\ InitEngine

InitScheduler ==
    /\ CaptionsIdle
    /\ ToolsIdle
    /\ clock \in StartClocks
    /\ start_now \in BOOLEAN
    /\ upload_all_now \in BOOLEAN
    /\ sched_pc = "boot"
    /\ packs = [d \in 0..(MaxDays + 1) |-> NoFile]
    /\ youtube = <<>>
    /\ manifest = NoManifest
    /\ pack_dir = 0
    /\ cycle_start = 0
    /\ consecutive_failures = 0
    /\ result = NoResult
    /\ generate_calls = 0
    /\ pending = <<>>
    /\ idx = 0
    /\ interval_seconds = NoInterval
    /\ slots_start_time = 0
    /\ upload_log = <<>>
    /\ runs = 1
    /\ escaped = NoException

NextScheduler ==
    \/ Boot
    \/ CycleStart
    \/ GenerateCall
    \/ GenerateHandle
    \/ StartUploads
    \/ UploadSlot
    \/ UploadCall
    \/ UploadHandle
    \/ Sleep
    \/ Kill
    \/ KillDuringSave
    \/ Restart

SpecScheduler == InitScheduler /\ [][NextScheduler]_schedulerVars

(***************************************************************************)
(* Properties.                                                             *)
(***************************************************************************)
\* the track was returned by _generate_from_word_timings
ReturnedByWordTimings ==
    /\ pc = "done"
    /\ consulted # <<>>
    /\ consulted[Len(consulted)][1] = "word_timings"

\* the track was returned by _generate_proportional_timings
ReturnedByProportional ==
    /\ pc = "done"
    /\ consulted # <<>>
    /\ consulted[Len(consulted)][1] = "proportional"

\* C1: a non-empty track returned by the word-timing path has its last end
\* equal to the audio duration, whatever end was computed for that entry.
C1_FinalEndIsAudioDuration ==
    (ReturnedByWordTimings /\ subtitles # <<>>)
        => subtitles[Len(subtitles)].end = audio_duration * den

\* C2: in every track returned by generate_from_script the start times are
\* non-decreasing in track order.
C2_StartsNonDecreasing ==
    pc = "done" =>
        \A i \in 1..(Len(subtitles) - 1) :
            subtitles[i].start <= subtitles[i + 1].start

\* C3: every entry of a track returned by the word-timing path satisfies
\* 0 <= start <= end <= audio duration.
C3_SpansWithinAudio ==
    ReturnedByWordTimings =>
        \A i \in DOMAIN subtitles :
            /\ 0 <= subtitles[i].start
            /\ subtitles[i].start <= subtitles[i].end
            /\ subtitles[i].end <= audio_duration * den

\* the sources called, in call order
Sources == [i \in DOMAIN consulted |-> consulted[i][1]]

\* C4 as claimed: timings first, else the acoustic adapter when the audio
\* file exists, with the proportional adapter on failure, else the
\* proportional adapter; no other timing source is consulted.
C4_AcousticDirectlyAfterTimings ==
    pc = "done" =>
        IF word_timings # <<>> THEN Sources = <<"word_timings">>
        ELSE IF audio_exists
             THEN Sources \in {<<"audio_analysis">>,
                               <<"audio_analysis", "proportional">>}
             ELSE Sources = <<"proportional">>

\* the first source generate_from_script calls, from its inputs
FirstSource ==
    IF word_timings # <<>> THEN "word_timings"
    ELSE IF audio_exists /\ api_key THEN "assemblyai"
    ELSE IF audio_exists THEN "audio_analysis"
    ELSE "proportional"

\* the source called after source src ended with outcome out
FollowedBy(src, out) ==
    IF src = "assemblyai" /\ out = "words" THEN "word_timings"
    ELSE IF src = "assemblyai" THEN "audio_analysis"
    ELSE IF src = "audio_analysis" /\ out # "speech" THEN "proportional"
    ELSE "none"

\* C4 (amended): a non-empty timing list selects the word-timing adapter
\* whatever the audio file; else an existing audio file selects AssemblyAI
\* transcription when an API key is configured (its words feed the
\* word-timing adapter, every failure or empty transcript leads to the
\* acoustic adapter) and the acoustic adapter otherwise; the proportional
\* adapter follows every acoustic failure; with no audio file the
\* proportional adapter runs directly.  Nothing else is called.
C4_SelectionOrder ==
    /\ consulted # <<>> => consulted[1][1] = FirstSource
    /\ \A i \in 1..(Len(consulted) - 1) :
          consulted[i + 1][1] = FollowedBy(consulted[i][1], consulted[i][2])
    /\ (pc = "done" /\ consulted # <<>>) =>
          FollowedBy(consulted[Len(consulted)][1], consulted[Len(consulted)][2])
              = "none"
    /\ pc \in {"align", "assemble", "done"} => consulted # <<>>

\* C4 witness: AssemblyAI failed with a re-raised quota error, the acoustic
\* analysis raised, and the proportional adapter returned the track.
C4_Witness ==
    /\ pc = "done"
    /\ word_timings = <<>>
    /\ consulted = <<<<"assemblyai", "error_429">>, <<"audio_analysis", "error">>,
                     <<"proportional", "ok">>>>
    /\ subtitles # <<>>

RECURSIVE UnitWords(_)
\* the units' words, unit after unit, each unit split on whitespace
UnitWords(units) ==
    IF units = <<>> THEN <<>>
    ELSE Split(units[1]) \o UnitWords(Tail(units))

\* C5: the units returned by the segmenter for a script and a window size
\* n >= 1, split on whitespace and taken in order, are exactly the script's
\* whitespace tokens (none dropped, duplicated or reordered), and every unit
\* holds at most n words.
C5_UnitsCoverScript ==
    (pc # "start" /\ subtitle_segments = <<>>) =>
        /\ UnitWords(segments) = Split(script)
        /\ \A i \in DOMAIN segments : Len(Split(segments[i])) <= max_words

\* C5 witness: a script of at least 3 words cut into units of 2 words, the
\* last unit holding the single word left over.
C5_Witness ==
    /\ pc = "select"
    /\ subtitle_segments = <<>>
    /\ max_words = 2
    /\ Len(Split(script)) = 5
    /\ Len(segments) = 3
    /\ Len(Split(segments[3])) = 1

RECURSIVE WordsBefore(_, _)
\* the number of script words in the units before unit i
WordsBefore(units, i) ==
    IF i <= 1 THEN 0
    ELSE WordsBefore(units, i - 1) + Len(Split(units[i - 1]))

\* the script positions of unit i that the aligner gave a timing
UnitMatched(i) ==
    {p \in WordsBefore(segments, i)..(WordsBefore(segments, i + 1) - 1) :
        p \in DOMAIN timing_map}

UnitFullyMatched(i) ==
    Cardinality(UnitMatched(i)) = Len(Split(segments[i]))

UnitPartiallyMatched(i) ==
    UnitMatched(i) # {} /\ ~UnitFullyMatched(i)

\* C6 as claimed: no entry of a track of the word-timing path is shorter
\* than the minimum duration unless its end was cut by the clamp to the
\* audio duration, for matched, partially matched and interpolated units.
C6_EveryEntryHasMinimumDuration ==
    ReturnedByWordTimings =>
        \A i \in DOMAIN subtitles :
            \/ subtitles[i].end - subtitles[i].start >= SUBTITLE_MIN_DURATION
            \/ subtitles[i].end = audio_duration

\* C6 (amended): a partially matched unit (some but not all of its words
\* matched) whose first matched word does not start before time 0 is not
\* shorter than the minimum duration unless its end was cut by the clamp to
\* the audio duration; fully matched and interpolated units have no minimum.
C6_PartialMatchHasMinimumDuration ==
    ReturnedByWordTimings =>
        \A i \in DOMAIN subtitles :
            (/\ UnitPartiallyMatched(i)
             /\ timing_map[SetMin(UnitMatched(i))].start >= 0)
            => \/ subtitles[i].end - subtitles[i].start >= SUBTITLE_MIN_DURATION
               \/ subtitles[i].end = audio_duration

\* C6 witness: a partially matched unit whose matched words span less than
\* the minimum duration and whose entry was extended to exactly the minimum.
C6_Witness ==
    /\ ReturnedByWordTimings
    /\ \E i \in DOMAIN subtitles :
          /\ UnitPartiallyMatched(i)
          /\ timing_map[SetMax(UnitMatched(i))].end
               - timing_map[SetMin(UnitMatched(i))].start < SUBTITLE_MIN_DURATION
          /\ subtitles[i].start >= 0
          /\ subtitles[i].end < audio_duration
          /\ subtitles[i].end - subtitles[i].start = SUBTITLE_MIN_DURATION

\* the timing the next AlignStep processes
CurrentTiming == At(wt_word_timings, timing_idx)

\* an AlignStep is taken
AlignStepTaken == pc = "align" /\ timing_idx' = timing_idx + 1

\* per entry: a matched timing whose offset is above 1000 is recorded as
\* [offset/1000, (offset+duration)/1000], any other as [offset, offset+duration]
C7_PerEntry ==
    (AlignStepTaken /\ timing_map' # timing_map) =>
        \E p \in DOMAIN timing_map' :
            /\ p \notin DOMAIN timing_map
            /\ IF CurrentTiming.offset > 1000 * TicksPerSecond
               THEN /\ timing_map'[p].start * 1000 = CurrentTiming.offset
                    /\ timing_map'[p].end * 1000
                         = CurrentTiming.offset + CurrentTiming.duration
               ELSE /\ timing_map'[p].start = CurrentTiming.offset
                    /\ timing_map'[p].end
                         = CurrentTiming.offset + CurrentTiming.duration

\* the run of the example: script "Hello World today", timings
\* (Hello, 0, 0.5) and (World, 1200, 800), D = 3.0, one word per unit
C7_Example ==
    /\ script = Join(<<Hello, World, today>>)
    /\ word_timings = <<T(Hello, Ms(0), Ms(500)),
                        T(World, Ms(1200000), Ms(800000))>>
    /\ max_words = 1
    /\ audio_duration = Ms(3000)

\* C7: unit normalisation is decided per entry: a matched timing whose offset
\* is above 1000 is recorded as [offset/1000, (offset+duration)/1000], one
\* whose offset is at most 1000 as [offset, offset+duration]; in the example
\* the World span starts at 1.2 and not at 1200.
C7_UnitNormalisation ==
    /\ [][C7_PerEntry]_vars
    /\ [](C7_Example /\ pc = "done" =>
            /\ subtitles[1].start = 0
            /\ subtitles[2].start = Ms(1200)
            /\ subtitles[2].end = Ms(2000))

\* C7 witness: the example run has ended, with one entry taken as seconds
\* and the other converted from milliseconds.
C7_Witness ==
    /\ C7_Example
    /\ pc = "done"
    /\ Len(subtitles) = 3
    /\ DOMAIN timing_map = {0, 1}
    /\ timing_map[1].start = Ms(1200)

\* the script positions the aligner examines for the current timing
Window == word_idx..Min(word_idx + 4, Len(words) - 1)

\* the examined positions whose script word matches the current timing
WindowHits ==
    {p \in Window : words_match(Strip(CurrentTiming.text), At(words, p))}

\* what one alignment step does to the cursor, the map and the unmatched list
C8_Step ==
    AlignStepTaken =>
        IF WindowHits # {}
        THEN LET p == SetMin(WindowHits)
             IN  /\ DOMAIN timing_map' = DOMAIN timing_map \cup {p}
                 /\ timing_map'[p].text = At(words, p)
                 /\ timing_map'[p].start \in {CurrentTiming.offset,
                                              CurrentTiming.offset \div 1000}
                 /\ \A q \in DOMAIN timing_map \ {p} :
                        timing_map'[q] = timing_map[q]
                 /\ word_idx' = p + 1
                 /\ skipped_timings' = skipped_timings
        ELSE /\ word_idx' = word_idx
             /\ timing_map' = timing_map
             /\ Len(skipped_timings') = Len(skipped_timings) + 1
             /\ skipped_timings'[Len(skipped_timings')][1] = timing_idx

\* C8: an alignment step examines only positions cursor..cursor+4 within the
\* script; at the smallest matching offset k it records the timing at
\* cursor+k and moves the cursor to cursor+k+1; with no match in the window
\* it leaves cursor and map unchanged and counts the timing as unmatched.
C8_AlignmentStep == [][C8_Step]_vars

\* C8 witness: the first timing matched no word of the window although its
\* word stands at script position 5, and the second matched at offset 4.
C8_Witness ==
    /\ pc = "align"
    /\ timing_idx = 2
    /\ Len(skipped_timings) = 1
    /\ Len(words) > 5
    /\ words_match(skipped_timings[1][2], At(words, 5))
    /\ DOMAIN timing_map = {4}
    /\ word_idx = 5

\* C9: in the proportional adapter the durations laid out, after the clamp
\* and the rescale, sum to the audio duration exactly, for every non-empty
\* script and every D > 0.
C9_DurationsSumToAudioDuration ==
    (ReturnedByProportional /\ Split(script) # <<>> /\ audio_duration > 0)
        => SumSeq(durations) = audio_duration * den

\* C10: for a non-empty script and D > 0 the track of the proportional
\* adapter tiles [0, D]: it starts at 0, each entry starts where the previous
\* one ends, every entry has start <= end <= D, and the last end is D; for an
\* empty script or D <= 0 the track is empty.
C10_TrackTilesAudio ==
    ReturnedByProportional =>
        IF Split(script) # <<>> /\ audio_duration > 0
        THEN /\ subtitles # <<>>
             /\ subtitles[1].start = 0
             /\ \A i \in 1..(Len(subtitles) - 1) :
                    subtitles[i + 1].start = subtitles[i].end
             /\ \A i \in DOMAIN subtitles :
                    /\ subtitles[i].start <= subtitles[i].end
                    /\ subtitles[i].end <= audio_duration * den
             /\ subtitles[Len(subtitles)].end = audio_duration * den
        ELSE subtitles = <<>>

\* C10 witness: a track of three entries for an audio so short that the
\* first entries use it up and the last entry is empty.
C10_Witness ==
    /\ ReturnedByProportional
    /\ Len(subtitles) = 3
    /\ audio_duration = Ms(300)
    /\ subtitles[1].end > 0
    /\ subtitles[3].start = subtitles[3].end
    /\ subtitles[3].end = audio_duration * den

\* an AssembleStep appends an entry
AssembleStepAppends ==
    /\ pc = "assemble"
    /\ Len(subtitles') = Len(subtitles) + 1

\* the script position after the last word of the unit AssembleStep handles
UnitEndIdx ==
    Min(word_idx + Len(Split(At(segments, seg_idx))), Len(words))

\* the matched script positions among the 3 positions following that unit
FollowingMatched ==
    {p \in UnitEndIdx..(UnitEndIdx + 2) :
        p < Len(words) /\ p \in DOMAIN timing_map}

\* what AssembleStep appends for a unit none of whose words was matched
C11_Step ==
    (/\ AssembleStepAppends
     /\ \A p \in word_idx..(UnitEndIdx - 1) : p \notin DOMAIN timing_map)
    => LET n == Len(Split(At(segments, seg_idx)))
           start0 == IF subtitles = <<>> THEN 0
                     ELSE subtitles[Len(subtitles)].end
           end0 == IF FollowingMatched # {}
                   THEN timing_map[SetMin(FollowingMatched)].start
                   ELSE start0 + (n * TicksPerSecond * 2) \div 5
           entry == subtitles'[Len(subtitles')]
       IN  /\ entry.start = Max(0, start0)
           /\ entry.end = Min(end0, audio_duration)

\* C11: for a caption unit none of whose words was matched the assembler sets
\* start to the previous entry's end (0 for the first entry) and end to the
\* start of the first matched script word among the 3 script positions after
\* the unit if there is one, else to start + wordCount/2.5, before the clamps
\* (start to >= 0, end to the audio duration).
C11_Interpolation == [][C11_Step]_vars

\* C11 witness: an unmatched third unit that starts at the second entry's end
\* and ends at the start of the matched word after it, earlier than the
\* estimate, and an unmatched sixth unit that ends at its estimate.
C11_Witness ==
    /\ pc = "done"
    /\ max_words = 1
    /\ Len(subtitles) = 7
    /\ DOMAIN timing_map = {4}
    /\ subtitles[3].start = subtitles[2].end
    /\ subtitles[3].end = timing_map[4].start
    /\ subtitles[3].end < subtitles[3].start + EstimatedDuration(1)
    /\ subtitles[6].start = subtitles[5].end
    /\ subtitles[6].end = subtitles[6].start + EstimatedDuration(1)
    /\ subtitles[6].end < audio_duration

(***************************************************************************)
(* Properties of the scheduler.                                            *)
(***************************************************************************)
\* an _upload_video call returns in this step
UploadCallReturns == Len(upload_log') = Len(upload_log) + 1

\* the manifest file of pack d records video n as uploaded
RecordedUploaded(d, n) ==
    /\ packs[d].state = "written"
    /\ n \in DOMAIN packs[d].videos
    /\ packs[d].videos[n].uploaded

\* C12 as claimed: across cycles, kills and restarts, a video whose upload
\* call has completed successfully is never passed to the upload client again.
C12_NoUploadAfterSuccess ==
    \A i \in DOMAIN upload_log : \A j \in DOMAIN upload_log :
        (i < j /\ upload_log[i].result.kind = "ok")
            => upload_log[j].video_path # upload_log[i].video_path

\* a video is passed to the upload client only while its record in the
\* manifest file says uploaded = false; a record that says uploaded = true
\* keeps saying so as long as the file is written in full; and a file that was
\* torn, or the file of a past day that was removed, is never written again
C12_Step ==
    /\ \A d \in DOMAIN packs :
          (\/ packs[d].state = "torn"
           \/ packs[d].state = "absent" /\ d < DayOf(clock))
              => packs'[d].state # "written"
    /\ UploadCallReturns =>
          LET path == upload_log'[Len(upload_log')].video_path
          IN  /\ packs[path[1]].state = "written"
              /\ path[2] \in DOMAIN packs[path[1]].videos
              /\ ~packs[path[1]].videos[path[2]].uploaded
    /\ \A d \in DOMAIN packs : \A n \in DOMAIN packs[d].videos :
          (RecordedUploaded(d, n) /\ packs'[d].state = "written")
              => /\ n \in DOMAIN packs'[d].videos
                 /\ packs'[d].videos[n].uploaded

\* C12 (amended): across cycles, kills and restarts, a video whose successful
\* upload has been recorded in the manifest file is never passed to the upload
\* client again.
C12_NoUploadAfterRecordedSuccess == [][C12_Step]_schedulerVars

\* C12 witness: a later run of the process uploads the second video of a pack
\* whose first video an earlier run uploaded and recorded.
C12_Witness ==
    /\ Len(upload_log) = 2
    /\ upload_log[1].result.kind = "ok"
    /\ upload_log[2].run > upload_log[1].run
    /\ upload_log[1].video_path[1] = upload_log[2].video_path[1]
    /\ upload_log[1].video_path[2] = 1
    /\ upload_log[2].video_path[2] = 2
    /\ RecordedUploaded(upload_log[1].video_path[1], 1)

\* the videos of pack d that the platform stores while the manifest file still
\* records them as not uploaded
LostUploads(d) ==
    {n \in DOMAIN packs[d].videos :
        /\ ~packs[d].videos[n].uploaded
        /\ \E k \in DOMAIN youtube : youtube[k] = <<d, n>>}

\* C13: the manifest is written after every upload attempt, successful or
\* failed, before the next attempt starts; so wherever the process is killed,
\* at most 1 video of the pack is on the platform with a manifest record on
\* disk that still says uploaded = false.
C13_AtMostOneUploadLost ==
    /\ sched_pc \in {"slot", "upload"} => packs[pack_dir] = Written(manifest.videos)
    /\ \A d \in DOMAIN packs : Cardinality(LostUploads(d)) <= 1

\* C13 witness: the process was killed after the upload of the second video
\* of a pack returned and before the manifest was written.
C13_Witness ==
    /\ sched_pc = "killed"
    /\ \E d \in DOMAIN packs :
          /\ packs[d].state = "written"
          /\ Len(packs[d].videos) = 3
          /\ packs[d].videos[1].uploaded
          /\ LostUploads(d) = {2}

\* the message of an exception names a quota or credit limit
NamesQuota(e) == e.words \cap CreditKeywords # {}

\* the upload of pending[idx] has failed with a quota error and is handled
QuotaUploadFailureHandled ==
    /\ sched_pc = "uploaded"
    /\ result.kind = "raised"
    /\ NamesQuota(result.err)
    /\ sched_pc' # "killed"

\* what the handling of a quota error of the upload of pending[idx] leaves
C14_Step ==
    QuotaUploadFailureHandled =>
        /\ sched_pc' \notin {"slot", "upload", "uploaded"}
        /\ \A k \in DOMAIN pending :
              manifest'.videos[pending[k]].uploaded <=> k <= idx
        /\ packs'[pack_dir] = Written(manifest'.videos)

\* no attempt follows a quota failure in the same cycle of the same run
C14_NoLaterAttempt ==
    \A i \in DOMAIN upload_log : \A j \in DOMAIN upload_log :
        (/\ i < j
         /\ upload_log[i].result.kind = "raised"
         /\ NamesQuota(upload_log[i].result.err))
        => <<upload_log[j].run, upload_log[j].cycle>>
             # <<upload_log[i].run, upload_log[i].cycle>>

\* C14: when the upload of the j-th pending entry fails with a quota error,
\* no upload is attempted for a later entry in that cycle, and the manifest
\* afterwards, in memory and on disk, has uploaded = true for exactly the
\* pending entries before j and uploaded = false for entry j and the later ones.
C14_QuotaStopsUploads ==
    /\ [][C14_Step]_schedulerVars
    /\ []C14_NoLaterAttempt

\* C14 witness: of 3 pending videos the first was uploaded and the second
\* failed with a quota error.
C14_Witness ==
    /\ sched_pc \in {"dead", "sleep"}
    /\ Len(pending) = 3
    /\ idx = 1
    /\ Len(upload_log) = 2
    /\ upload_log[2].result.kind = "raised"
    /\ NamesQuota(upload_log[2].result.err)
    /\ manifest.videos[1].uploaded
    /\ ~manifest.videos[2].uploaded
    /\ ~manifest.videos[3].uploaded
    /\ packs[pack_dir] = Written(manifest.videos)

\* C15: no failure of a video generation (failed result or exception) or of
\* an upload (quota or other error) ends the scheduler: no exception escapes
\* from run_forever while it handles one.
C15_NoFailureEndsScheduler ==
    escaped.site \notin {"generation", "upload"}

\* the process is in the generation loop of _generate_daily_pack
Generating == sched_pc \in {"generate", "generated"}

\* C16 as claimed: the generation phase ends by itself with a bounded batch
\* whatever the orchestrator delivers, an unbroken run of successes included:
\* it has ended before the last success the orchestrator has to give is used up.
C16_GenerationEndsWithBoundedBatch ==
    Generating => Len(manifest.videos) < MaxVideos

\* a success appends one video, writes the manifest and is followed by another
\* attempt; the phase ends only on a failed attempt (or a kill)
C16_Step ==
    /\ (sched_pc = "generated" /\ result.kind = "ok" /\ sched_pc' # "killed")
          => /\ sched_pc' = "generate"
             /\ Len(manifest'.videos) = Len(manifest.videos) + 1
             /\ packs'[pack_dir] = Written(manifest'.videos)
    /\ (Generating /\ sched_pc' \notin {"generate", "generated", "killed"})
          => result.kind \in {"failed", "raised"}

\* C16 (amended): the generation phase of a daily cycle ends only when a
\* generation attempt fails (or the process is killed); every successful
\* generation appends one video to the manifest and is followed by another
\* attempt, so an unbroken run of successes never ends the phase and the
\* scheduler puts no bound on the batch.
C16_GenerationEndsOnlyOnFailure == [][C16_Step]_schedulerVars

\* C16 witness: after an unbroken run of successes, one per call, the loop is
\* about to call the orchestrator again.
C16_Witness ==
    /\ sched_pc = "generate"
    /\ generate_calls = MaxVideos
    /\ Len(manifest.videos) = MaxVideos
    /\ packs[pack_dir] = Written(manifest.videos)

\* a failed generation attempt that names a quota or credit limit is handled
QuotaGenerationFailureHandled ==
    /\ sched_pc = "generated"
    /\ \/ result.kind = "failed" /\ result.words \cap CreditKeywords # {}
       \/ result.kind = "raised" /\ NamesQuota(result.err)
    /\ sched_pc' # "killed"

\* what the handling of a quota failure of a generation attempt leaves: the
\* loop is left by a return to run_forever with the manifest as it was
C17_Step ==
    QuotaGenerationFailureHandled =>
        /\ sched_pc' \in {"schedule", "sleep"}
        /\ manifest' = manifest
        /\ manifest.videos # <<>> => packs'[pack_dir] = Written(manifest.videos)

\* C17: when a generation attempt fails with a quota or credit failure,
\* _generate_daily_pack calls the orchestrator no more in that cycle and
\* returns a manifest that still holds every video appended before, each of
\* them already written to disk.
C17_QuotaFailureReturnsManifest == [][C17_Step]_schedulerVars

\* a failed generation attempt, as an exception: a result without success is
\* classified as Exception(error text)
FailureOf(r) ==
    IF r.kind = "failed" THEN Err("Exception", r.words) ELSE r.err

\* the attempt failed with a failure that is neither quota nor narration related
OtherFailure(r) ==
    /\ r.kind \in {"failed", "raised"}
    /\ ~NamesQuota(FailureOf(r))
    /\ ~is_tts_error(FailureOf(r))

\* the attempt failed with a narration failure that names no quota
NarrationFailure(r) ==
    /\ r.kind \in {"failed", "raised"}
    /\ ~NamesQuota(FailureOf(r))
    /\ is_tts_error(FailureOf(r))

\* what the handling of a generation attempt does to the count of consecutive
\* failures and to the loop
C18_Step ==
    (sched_pc = "generated" /\ sched_pc' # "killed") =>
        /\ (result.kind = "ok" \/ NarrationFailure(result))
              => /\ consecutive_failures' = 0
                 /\ sched_pc' = "generate"
        /\ OtherFailure(result)
              => /\ consecutive_failures' = consecutive_failures + 1
                 /\ (sched_pc' # "generate") <=> (consecutive_failures' = max_consecutive_failures)

\* C18: the cycle is aborted exactly when the 5th consecutive failure that is
\* neither quota nor narration related occurs; a success or a narration
\* failure resets the count to 0 and never aborts the cycle.
C18_AbortAtFifthConsecutiveFailure == [][C18_Step]_schedulerVars

\* C19: with the immediate-upload override off, two consecutive upload
\* attempts of one cycle start at least 3600 seconds apart.
C19_AttemptsAnHourApart ==
    ~upload_all_now =>
        \A i \in 1..(Len(upload_log) - 1) :
            (/\ upload_log[i + 1].run = upload_log[i].run
             /\ upload_log[i + 1].cycle = upload_log[i].cycle)
            => upload_log[i + 1].start - upload_log[i].start >= 3600

\* the slot of pending[idx] is computed with the override off
SlotScheduled ==
    /\ sched_pc \in {"slot", "upload"}
    /\ idx < Len(pending)
    /\ ~upload_all_now

\* C20 as claimed: with the override off, every upload slot of a cycle lies
\* before the daily boundary that follows the start of the cycle.
C20_SlotsBeforeNextMidnight ==
    SlotScheduled =>
        slots_start_time * interval_seconds.den + interval_seconds.num * idx
            <= next_midnight_pacific(cycle_start) * interval_seconds.den

\* C20 (amended): with the override off and at most 24 pending entries of
\* the manifest, every upload slot of a cycle lies less than 24 hours after the
\* start of the upload phase, whether or not the next daily boundary comes
\* before it.
C20_SlotsWithinADayOfStart ==
    (SlotScheduled /\ Len(pending) <= 24) =>
        interval_seconds.num * idx < 24 * 3600 * interval_seconds.den

\* C20 witness: the slot of the third of 3 pending videos lies 16 hours after
\* the start of the upload phase, beyond the next daily boundary.
C20_Witness ==
    /\ SlotScheduled
    /\ sched_pc = "upload"
    /\ Len(pending) = 3
    /\ idx = 2
    /\ clock = slots_start_time + 16 * 3600
    /\ clock > next_midnight_pacific(cycle_start)

\* C22: the manifest file is rewritten atomically: wherever the process is
\* killed, the file that _load_manifest reads on restart is a complete
\* manifest (the previous or the new one), never an empty or partial document.
C22_ManifestNeverPartial ==
    sched_pc = "killed" => \A d \in DOMAIN packs : packs[d].state # "torn"

\* the process is inside a daily cycle and has loaded the manifest it works on
InCycle ==
    sched_pc \in {"generate", "generated", "schedule", "slot", "upload",
                  "uploaded", "sleep"}

\* C21: after a quota error has stopped the uploads of a cycle, the entries
\* left with uploaded = false are taken up again by the next daily cycle: a
\* cycle of a later day works on a manifest that holds every entry whose
\* upload failed with a quota error and that is still not uploaded.
C21_LeftoversResumedNextCycle ==
    \A i \in DOMAIN upload_log :
        LET path == upload_log[i].video_path
        IN  (/\ upload_log[i].result.kind = "raised"
             /\ NamesQuota(upload_log[i].result.err)
             /\ ~RecordedUploaded(path[1], path[2])
             /\ InCycle
             /\ DayOf(cycle_start) > path[1])
            => \E k \in DOMAIN manifest.videos :
                   manifest.videos[k].video_path = path

\* the failed attempt names a quota or credit limit and is narration related
MatchesBothClasses(r) ==
    /\ r.kind \in {"failed", "raised"}
    /\ NamesQuota(FailureOf(r))
    /\ is_tts_error(FailureOf(r))

\* what the handling of a failure that matches both keyword sets leaves
C28_Step ==
    (sched_pc = "generated" /\ MatchesBothClasses(result) /\ sched_pc' # "killed")
        => /\ sched_pc' # "generate"
           /\ consecutive_failures' = consecutive_failures
           /\ clock' = clock

\* C28: in the generation loop the quota classification is tested before the
\* narration classification: a failure whose text matches both keyword sets
\* stops the cycle at once, with no sleep, no reset of the failure count and
\* no further candidate story.
C28_QuotaTestedBeforeNarration == [][C28_Step]_schedulerVars

\* C28 witness: the second attempt of a cycle has failed with a narration
\* error that mentions a rate limit, and the loop is about to classify it.
C28_Witness ==
    /\ sched_pc = "generated"
    /\ result = [kind |-> "failed", words |-> {"tts", "limit", "rate limit"}]
    /\ generate_calls = 2
    /\ Len(manifest.videos) = 1

\* what one alignment step does to the cursor and to the recorded positions
C29_Step ==
    AlignStepTaken =>
        /\ word_idx' >= word_idx
        /\ word_idx' <= Len(words)
        /\ DOMAIN timing_map \subseteq DOMAIN timing_map'
        /\ \A p \in DOMAIN timing_map : timing_map'[p] = timing_map[p]
        /\ Cardinality(DOMAIN timing_map' \ DOMAIN timing_map) <= 1
        /\ \A p \in DOMAIN timing_map' \ DOMAIN timing_map :
              /\ \A q \in DOMAIN timing_map : q < p
              /\ word_idx <= p
              /\ p < word_idx'

\* the recorded positions lie below the cursor, and there are no more of them
\* than timings processed or script words
C29_Positions ==
    pc = "align" =>
        /\ word_idx \in 0..Len(words)
        /\ \A p \in DOMAIN timing_map : 0 <= p /\ p < word_idx
        /\ Cardinality(DOMAIN timing_map) <= Min(timing_idx, Len(words))
        /\ Cardinality(DOMAIN timing_map) + Len(skipped_timings) = timing_idx

\* C29: throughout the alignment the cursor never decreases and never exceeds
\* the number of script words, and the script positions recorded in the map
\* are strictly increasing in the order the timings are processed: a position
\* receives at most one timing, no recorded timing is overwritten, and the
\* matched positions number at most min(timings, script words).
C29_CursorAndMapMonotone ==
    /\ [][C29_Step]_vars
    /\ []C29_Positions

\* C29 witness: two timings were matched at positions 0 and 2 of a script of
\* three words, the word between them skipped, and the cursor is at the end.
C29_Witness ==
    /\ pc = "align"
    /\ Len(words) = 3
    /\ timing_idx = 2
    /\ DOMAIN timing_map = {0, 2}
    /\ word_idx = 3


(***************************************************************************)
(* _cleanup_old_packs on a directory listing whose entries carry their     *)
(* names as character sequences (server_scheduler.py lines 162-185).       *)
(***************************************************************************)

MaxEntries == 3         \* entries of DAILY_PACKS_DIR in one listing

DigitValue ==
    [c \in {"0", "1", "2", "3", "4", "5", "6", "7", "8", "9"} |->
        CASE c = "0" -> 0 [] c = "1" -> 1 [] c = "2" -> 2 [] c = "3" -> 3
          [] c = "4" -> 4 [] c = "5" -> 5 [] c = "6" -> 6 [] c = "7" -> 7
          [] c = "8" -> 8 [] c = "9" -> 9]

IsDigit(c) == c \in DOMAIN DigitValue

\* the character of s at position i, or "" past its end
CharAt(s, i) == IF i \in DOMAIN s THEN s[i] ELSE ""

\* %m of strptime, the group 1[0-2]|0[1-9]|[1-9] tried at position i: the
\* <<month, next position>> of every alternative that matches, in the order
\* the regular expression tries them
MonthMatches(s, i) ==
    LET a == CharAt(s, i)
        b == CharAt(s, i + 1)
    IN  (IF a = "1" /\ b \in {"0", "1", "2"}
            THEN <<(<<10 + DigitValue[b], i + 2>>)>> ELSE <<>>)
        \o (IF a = "0" /\ IsDigit(b) /\ b # "0"
            THEN <<(<<DigitValue[b], i + 2>>)>> ELSE <<>>)
        \o (IF IsDigit(a) /\ a # "0"
            THEN <<(<<DigitValue[a], i + 1>>)>> ELSE <<>>)

\* %d of strptime, the group 3[01]|[12]\d|0[1-9]|[1-9]| [1-9] tried at
\* position j
DayMatches(s, j) ==
    LET a == CharAt(s, j)
        b == CharAt(s, j + 1)
    IN  (IF a = "3" /\ b \in {"0", "1"}
            THEN <<(<<30 + DigitValue[b], j + 2>>)>> ELSE <<>>)
        \o (IF a \in {"1", "2"} /\ IsDigit(b)
            THEN <<(<<10 * DigitValue[a] + DigitValue[b], j + 2>>)>> ELSE <<>>)
        \o (IF a = "0" /\ IsDigit(b) /\ b # "0"
            THEN <<(<<DigitValue[b], j + 2>>)>> ELSE <<>>)
        \o (IF IsDigit(a) /\ a # "0"
            THEN <<(<<DigitValue[a], j + 1>>)>> ELSE <<>>)
        \o (IF a = " " /\ IsDigit(b) /\ b # "0"
            THEN <<(<<DigitValue[b], j + 2>>)>> ELSE <<>>)

\* the matches of (\d\d\d\d)(month)(day) at the start of s, in the order of
\* the backtracking search: <<year, month, day, position after the match>>
RECURSIVE DateMatchesFrom(_, _, _)
DateMatchesFrom(s, year, months) ==
    IF months = <<>> THEN <<>>
    ELSE LET days == DayMatches(s, Head(months)[2])
         IN  [k \in 1..Len(days) |->
                 <<year, Head(months)[1], days[k][1], days[k][2]>>]
             \o DateMatchesFrom(s, year, Tail(months))

DateMatches(s) ==
    IF \A i \in 1..4 : IsDigit(CharAt(s, i))
        THEN DateMatchesFrom(s,
                 1000 * DigitValue[s[1]] + 100 * DigitValue[s[2]]
                     + 10 * DigitValue[s[3]] + DigitValue[s[4]],
                 MonthMatches(s, 5))
        ELSE <<>>

is_leap(year) ==
    year % 4 = 0 /\ (year % 100 # 0 \/ year % 400 = 0)

days_in_month(year, month) ==
    IF month = 2 THEN (IF is_leap(year) THEN 29 ELSE 28)
    ELSE IF month \in {4, 6, 9, 11} THEN 30 ELSE 31

\* the value strptime raises ValueError for
NoDate == <<0, 0, 0>>

\* datetime.strptime(name, "%Y%m%d").date(): the first match of the format's
\* regular expression decides; ValueError when there is none, when it leaves
\* characters unconverted, or when it names no day of the calendar
strptime_Ymd(name) ==
    LET found == DateMatches(name)
    IN  IF found = <<>> THEN NoDate
        ELSE IF found[1][4] # Len(name) + 1 THEN NoDate
        ELSE IF found[1][1] < 1 THEN NoDate
        ELSE IF found[1][3] > days_in_month(found[1][1], found[1][2]) THEN NoDate
        ELSE <<found[1][1], found[1][2], found[1][3]>>

RECURSIVE days_before_month(_, _)
days_before_month(year, month) ==
    IF month = 1 THEN 0
    ELSE days_before_month(year, month - 1) + days_in_month(year, month - 1)

\* date.toordinal(): the number of the day, 0001-01-01 being day 1
toordinal(date) ==
    LET y == date[1] - 1
    IN  y * 365 + y \div 4 - y \div 100 + y \div 400
        + days_before_month(date[1], date[2]) + date[3]

\* line 164, as the ordinal of the date
cutoff(now_date) == toordinal(now_date) - (PACK_RETENTION_DAYS - 1)

\* lines 166-173: the loop body removes item
RemovesItem(item, now_date) ==
    /\ item.is_dir
    /\ strptime_Ymd(item.name) # NoDate
    /\ toordinal(strptime_Ymd(item.name)) < cutoff(now_date)

Dir(name) == [name |-> name, is_dir |-> TRUE]
PlainFile(name) == [name |-> name, is_dir |-> FALSE]

\* what DAILY_PACKS_DIR may hold
EntryPool ==
    {Dir(<<"2","0","2","6","1","0","3","1">>),
     Dir(<<"2","0","2","6","1","1","0","1">>),
     Dir(<<"2","0","2","6","1","1","0","2">>),
     Dir(<<"2","0","2","6","1","1","0","3">>),
     Dir(<<"2","0","2","6","0","2","2","6">>),
     Dir(<<"2","0","2","6","0","2","2","7">>),
     Dir(<<"2","0","2","6","0","2","2","8">>),
     Dir(<<"2","0","2","6","0","3","0","1">>),
     Dir(<<"2","0","2","4","0","2","2","9">>),
     Dir(<<"2","0","2","6","0","2","3","0">>),
     Dir(<<"2","0","2","6","1","1">>),
     Dir(<<"2","0","2","6","1","1","0">>),
     Dir(<<"2","0","2","6","1","1","1">>),
     Dir(<<"2","0","2","6","1","1","0","1","5">>),
     Dir(<<"t","m","p">>),
     PlainFile(<<"2","0","2","6","1","0","0","1">>),
     PlainFile(<<"2","0","2","6","1","1","0","1">>)}

\* the days _now_pacific().date() is taken on
TodayPool == {<<2026, 11, 3>>, <<2026, 3, 1>>, <<2024, 3, 2>>}

\* a directory holds one entry per name
Listings ==
    {l \in SUBSET EntryPool :
        /\ Cardinality(l) <= MaxEntries
        /\ \A e1, e2 \in l : e1.name = e2.name => e1 = e2}

InitCleanup ==
    /\ CaptionsIdle
    /\ SchedulerNotStarted
    /\ PipelineIdle
    /\ UploaderIdle
    /\ clean_pc = "call"
    /\ today_date \in TodayPool
    /\ daily_packs \in Listings
    /\ packs_before = {}
    /\ visited = {}

\* lines 163-165: the call lists the directory
CleanupList ==
    /\ clean_pc = "call"
    /\ packs_before' = daily_packs
    /\ clean_pc' = "iter"
    /\ UNCHANGED <<today_date, daily_packs, visited>>
    /\ UNCHANGED <<vars, schedulerVars, pipelineVars, uploaderVars>>

\* lines 165-185: one iteration of the loop, in the order iterdir() yields
CleanupItem ==
    /\ clean_pc = "iter"
    /\ \E item \in packs_before \ visited :
        /\ visited' = visited \cup {item}
        /\ daily_packs' = IF RemovesItem(item, today_date)
                              THEN daily_packs \ {item}
                              ELSE daily_packs
    /\ UNCHANGED <<clean_pc, today_date, packs_before>>
    /\ UNCHANGED <<vars, schedulerVars, pipelineVars, uploaderVars>>

\* the loop is through and the function returns
CleanupReturn ==
    /\ clean_pc = "iter"
    /\ visited = packs_before
    /\ clean_pc' = "done"
    /\ UNCHANGED <<today_date, daily_packs, packs_before, visited>>
    /\ UNCHANGED <<vars, schedulerVars, pipelineVars, uploaderVars>>

NextCleanup == CleanupList \/ CleanupItem \/ CleanupReturn

SpecCleanup == InitCleanup /\ [][NextCleanup]_cleanupVars

\* the name is a date written YYYYMMDD: eight digits, a month and a day of it
IsYYYYMMDD(name) ==
    /\ Len(name) = 8
    /\ \A i \in 1..8 : IsDigit(name[i])
    /\ LET month == 10 * DigitValue[name[5]] + DigitValue[name[6]]
           day == 10 * DigitValue[name[7]] + DigitValue[name[8]]
           year == 1000 * DigitValue[name[1]] + 100 * DigitValue[name[2]]
                       + 10 * DigitValue[name[3]] + DigitValue[name[4]]
       IN  /\ year >= 1
           /\ month \in 1..12
           /\ day \in 1..days_in_month(year, month)

\* the date such a name writes
NamedDate(name) ==
    <<1000 * DigitValue[name[1]] + 100 * DigitValue[name[2]]
          + 10 * DigitValue[name[3]] + DigitValue[name[4]],
      10 * DigitValue[name[5]] + DigitValue[name[6]],
      10 * DigitValue[name[7]] + DigitValue[name[8]]>>

\* C23: after _cleanup_old_packs has run on day T, a directory named by a
\* YYYYMMDD date that was there before is still there exactly when its date
\* is T - 2 days or later, and every directory with another name and every
\* plain file is still there
C23_CleanupKeepsRetentionWindow ==
    clean_pc = "done" =>
        \A e \in packs_before :
            IF e.is_dir /\ IsYYYYMMDD(e.name)
                THEN (e \in daily_packs) <=>
                         (toordinal(NamedDate(e.name)) >= toordinal(today_date) - 2)
                ELSE e \in daily_packs


(***************************************************************************)
(* story_cache.py: the used-story cache file.                              *)
(***************************************************************************)

MAX_CACHE_SIZE == 50

\* load_cache() (lines 13-22): the list of id strings json.load reads back as
\* json.dump wrote it, [] without a file
load_cache(file) == file

\* save_cache(used_ids) (lines 25-31): keeps the last MAX_CACHE_SIZE ids
save_cache_untruncated(ids) == ids
save_cache(ids) ==
    IF Len(ids) > MAX_CACHE_SIZE
        THEN SubSeq(ids, Len(ids) - MAX_CACHE_SIZE + 1, Len(ids))
        ELSE ids

\* add_story_id(story_id) (lines 34-39): the file after the call
add_story_id(file, story_id) ==
    LET ids == load_cache(file)
    IN  save_cache(IF \E i \in DOMAIN ids : ids[i] = story_id
                       THEN ids
                       ELSE Append(ids, story_id))

\* get_avoid_ids() (lines 42-44)
get_avoid_ids(file) == load_cache(file)

\* what an add_story_id call is remembered by: the id, and whether the cache
\* held it when the call was made
Added(file, story_id) ==
    [id |-> story_id,
     present |-> \E i \in DOMAIN file : file[i] = story_id]

(***************************************************************************)
(* main_pipeline.py: generate_video and _generate_video_internal, with     *)
(* FAST_RENDER_MODE and SKIP_AUDIO_GENERATION off and no custom_story.     *)
(***************************************************************************)

MaxStories == 2         \* story ids the story source can return: 1..MaxStories
MaxFetches == 3         \* fetch_story calls after which no new generate_video call starts

max_retries == 3

StoryIds == 1..MaxStories

\* tts_keywords (lines 84-89 and 243-248)
tts_keywords ==
    {"tts", "text-to-speech", "text to speech", "narration", "audio generation",
     "generate audio", "speech", "no audio content", "audio.*failed",
     "narration.*failed", "generate.*failed"}

\* any(keyword in error_msg for keyword in tts_keywords), on the keywords a
\* message contains
has_tts_keyword(error_msg) == error_msg \cap tts_keywords # {}

\* messages of the exceptions the steps raise, as the keywords they contain
MkdirErrorPool == {{}, {"tts"}}             \* OSError naming the output path
NarrationErrorPool == {{}, {"speech"}}      \* raised by generate_narration
StageErrorPool == {{}, {"tts"}}             \* raised by the other steps
FetchError == {"rate limiting"}             \* lines 156-162

Returned(value) == [kind |-> "returned", value |-> value]
Raised(error_msg) == [kind |-> "raised", error |-> error_msg]

\* lines 341-347
SuccessResult == [success |-> TRUE]

\* the except clause of _generate_video_internal (lines 349-357): whatever
\* was raised inside its try block comes back as a result
OuterExcept_reraise(error_msg) == Raised(error_msg)
OuterExcept(error_msg) == Returned([success |-> FALSE, error |-> error_msg])

\* the steps of _generate_video_internal after the story is there
NextStage(st) ==
    CASE st = "intro_card" -> "narration"
      [] st = "narration" -> "subtitles"
      [] st = "subtitles" -> "assemble"
      [] st = "assemble" -> "metadata"

\* lines 227 and 228-259: the cache file after generate_narration returned
\* (ok) or raised
CacheAfterNarration_always(file, story_id, ok) == add_story_id(file, story_id)
CacheAfterNarration(file, story_id, ok) ==
    IF ok THEN add_story_id(file, story_id) ELSE file

\* generate_video, lines 67-102: what follows the outcome of one
\* _generate_video_internal call. A returned result is returned (line 68); an
\* exception starts the next attempt when it counts as a TTS error and
\* attempts are left (lines 92-99), and is raised otherwise (line 102)
AfterInternal(outcome) ==
    IF outcome.kind = "returned"
        THEN /\ pipe_pc' = "returned"
             /\ pipe_result' = outcome
             /\ attempt' = attempt
        ELSE IF has_tts_keyword(outcome.error) /\ attempt < max_retries - 1
            THEN /\ pipe_pc' = "loop"
                 /\ pipe_result' = pipe_result
                 /\ attempt' = attempt + 1
            ELSE /\ pipe_pc' = "raised"
                 /\ pipe_result' = outcome
                 /\ attempt' = attempt

InitPipeline ==
    /\ CaptionsIdle
    /\ SchedulerNotStarted
    /\ UploaderIdle
    /\ CleanupIdle
    /\ pipe_pc = "loop"
    /\ attempt = 0
    /\ failed_story_ids = <<>>
    /\ story = 0
    /\ stage = "none"
    /\ used_ids = <<>>
    /\ pipe_result = [kind |-> "none"]
    /\ fetch_log = <<>>
    /\ narrated = {}
    /\ add_log = <<>>

\* lines 51-53: the next generate_video call of the same installation
GenerateVideoCall ==
    /\ pipe_pc \in {"returned", "raised"}
    /\ Len(fetch_log) < MaxFetches
    /\ pipe_pc' = "loop"
    /\ attempt' = 0
    /\ failed_story_ids' = <<>>
    /\ story' = 0
    /\ stage' = "none"
    /\ pipe_result' = [kind |-> "none"]
    /\ UNCHANGED <<used_ids, fetch_log, narrated, add_log>>
    /\ UNCHANGED <<vars, schedulerVars, uploaderVars, cleanupVars>>

\* lines 55-66 and 116-121: one pass of the loop calls
\* _generate_video_internal, which makes its output folder
StartAttempt ==
    /\ pipe_pc = "loop"
    /\ pipe_pc' = "fetch"
    /\ story' = 0
    /\ stage' = "none"
    /\ UNCHANGED <<attempt, failed_story_ids, used_ids, pipe_result, fetch_log,
                   narrated, add_log>>
    /\ UNCHANGED <<vars, schedulerVars, uploaderVars, cleanupVars>>

\* lines 117-119 raise: mkdir stands before the try block, so the exception
\* reaches the except clause of generate_video
MkdirFails ==
    /\ pipe_pc = "loop"
    /\ \E error_msg \in MkdirErrorPool :
        AfterInternal(Raised(error_msg))
    /\ story' = 0
    /\ stage' = "mkdir"
    /\ UNCHANGED <<failed_story_ids, used_ids, fetch_log, narrated, add_log>>
    /\ UNCHANGED <<vars, schedulerVars, uploaderVars, cleanupVars>>

\* lines 141-162: fetch_story with the cached and the failed ids to avoid, a
\* second time when it returned nothing
FetchStory ==
    /\ pipe_pc = "fetch"
    /\ LET avoid_ids ==
               IF failed_story_ids # <<>>
                   THEN Range(get_avoid_ids(used_ids)) \cup Range(failed_story_ids)
                   ELSE Range(get_avoid_ids(used_ids))
       IN  \E first \in (StoryIds \ avoid_ids) \cup {0} :
               IF first # 0
                   THEN /\ story' = first
                        /\ fetch_log' = Append(fetch_log, avoid_ids)
                        /\ pipe_pc' = "intro_card"
                        /\ UNCHANGED <<stage, pipe_result, attempt>>
                   ELSE \E second \in (StoryIds \ avoid_ids) \cup {0} :
                        /\ story' = second
                        /\ fetch_log' = fetch_log \o <<avoid_ids, avoid_ids>>
                        /\ IF second # 0
                               THEN /\ pipe_pc' = "intro_card"
                                    /\ UNCHANGED <<stage, pipe_result, attempt>>
                               ELSE /\ stage' = "fetch"
                                    /\ AfterInternal(OuterExcept(FetchError))
    /\ UNCHANGED <<failed_story_ids, used_ids, narrated, add_log>>
    /\ UNCHANGED <<vars, schedulerVars, uploaderVars, cleanupVars>>

\* lines 218-259: generate_narration, then add_story_id when it returned, the
\* id appended to avoid_story_ids (the list generate_video holds as
\* failed_story_ids) when it raised what counts as a TTS error. traceback is
\* a local name of _generate_video_internal (line 351) that is unbound here,
\* so the check of lines 234-239 never sets is_tts_error
Narration ==
    /\ pipe_pc = "narration"
    /\ \/ /\ used_ids' = CacheAfterNarration(used_ids, story, TRUE)
          /\ add_log' = Append(add_log, Added(used_ids, story))
          /\ narrated' = narrated \cup {story}
          /\ pipe_pc' = NextStage("narration")
          /\ UNCHANGED <<stage, failed_story_ids, pipe_result, attempt>>
       \/ \E error_msg \in NarrationErrorPool :
          /\ used_ids' = CacheAfterNarration(used_ids, story, FALSE)
          /\ stage' = "narration"
          /\ IF has_tts_keyword(error_msg)
                 THEN /\ failed_story_ids' = Append(failed_story_ids, story)
                      /\ AfterInternal(OuterExcept(error_msg \cup {"tts"}))
                 ELSE /\ failed_story_ids' = failed_story_ids
                      /\ AfterInternal(OuterExcept(error_msg))
          /\ UNCHANGED <<narrated, add_log>>
    /\ UNCHANGED <<story, fetch_log>>
    /\ UNCHANGED <<vars, schedulerVars, uploaderVars, cleanupVars>>

\* lines 163-205 (script, compliance check, intro card), 261-280
\* (subtitles) and 282-308 (assembly): the step runs or raises
StageRuns ==
    /\ pipe_pc \in {"intro_card", "subtitles", "assemble"}
    /\ \/ /\ pipe_pc' = NextStage(pipe_pc)
          /\ UNCHANGED <<stage, pipe_result, attempt>>
       \/ \E error_msg \in StageErrorPool :
          /\ stage' = pipe_pc
          /\ AfterInternal(OuterExcept(error_msg))
    /\ UNCHANGED <<failed_story_ids, story, used_ids, fetch_log, narrated, add_log>>
    /\ UNCHANGED <<vars, schedulerVars, uploaderVars, cleanupVars>>

\* lines 310-347: metadata, then the result of a finished video
Metadata ==
    /\ pipe_pc = "metadata"
    /\ \/ /\ AfterInternal(Returned(SuccessResult))
          /\ stage' = stage
       \/ \E error_msg \in StageErrorPool :
          /\ stage' = "metadata"
          /\ AfterInternal(OuterExcept(error_msg))
    /\ UNCHANGED <<failed_story_ids, story, used_ids, fetch_log, narrated, add_log>>
    /\ UNCHANGED <<vars, schedulerVars, uploaderVars, cleanupVars>>

NextPipeline ==
    \/ GenerateVideoCall
    \/ StartAttempt
    \/ MkdirFails
    \/ FetchStory
    \/ Narration
    \/ StageRuns
    \/ Metadata

SpecPipeline == InitPipeline /\ [][NextPipeline]_pipelineVars

\* this step is generate_narration raising
NarrationFails == pipe_pc = "narration" /\ pipe_pc' # NextStage("narration")

C24_Step ==
    (NarrationFails /\ attempt + 1 < max_retries)
        => /\ pipe_pc' = "loop"
           /\ attempt' = attempt + 1
           /\ story \in Range(failed_story_ids')

C24_Fetch ==
    fetch_log' # fetch_log
        => Range(failed_story_ids) \subseteq fetch_log'[Len(fetch_log')]

\* C24: when narration synthesis fails in attempt n < 3 of a generate_video
\* call, the call starts attempt n + 1 with the failed story's id among the
\* ids the story source is told to avoid, and no call makes more than 3
\* attempts
C24_NarrationFailureRetried ==
    /\ [][C24_Step /\ C24_Fetch]_pipelineVars
    /\ [](attempt < max_retries)

C25_Step ==
    used_ids' # used_ids
        => /\ pipe_pc = "narration"
           /\ pipe_pc' = NextStage("narration")
           /\ story \in narrated'
           /\ Range(used_ids') \subseteq Range(used_ids) \cup {story}

C25_Absent ==
    /\ Range(used_ids) \subseteq narrated
    /\ (pipe_pc \in {"intro_card", "narration"} \/ stage \in {"intro_card", "narration"})
           => \A i \in DOMAIN used_ids : used_ids[i] # story

\* C25: the cache file gains a story id only in the step in which narration
\* synthesis for that story returns; a story that was acquired and whose
\* narration failed or was not reached is not in the file, and every id in
\* the file had its narration synthesized in this or an earlier call
C25_CachedOnlyAfterNarration ==
    /\ [][C25_Step]_pipelineVars
    /\ []C25_Absent

C25_Witness ==
    /\ pipe_pc = "returned"
    /\ stage = "narration"
    /\ story = 2
    /\ failed_story_ids = <<2>>
    /\ used_ids = <<1>>
    /\ narrated = {1}

\* the steps inside the try block of _generate_video_internal
TriedStages == {"fetch", "intro_card", "narration", "subtitles", "assemble", "metadata"}

C26_Step ==
    (stage' \in TriedStages /\ stage' # stage)
        => /\ pipe_pc' = "returned"
           /\ pipe_result'.kind = "returned"
           /\ pipe_result'.value.success = FALSE
           /\ "error" \in DOMAIN pipe_result'.value
           /\ stage' # "narration" =>
                  /\ attempt' = attempt
                  /\ failed_story_ids' = failed_story_ids
                  /\ fetch_log' \in {fetch_log, fetch_log \o <<fetch_log'[Len(fetch_log')], fetch_log'[Len(fetch_log')]>>}

C26_Ended ==
    /\ (pipe_pc = "raised" => stage = "mkdir")
    /\ (stage \in TriedStages
           => /\ pipe_pc = "returned"
              /\ pipe_result.kind = "returned"
              /\ pipe_result.value.success = FALSE)

\* C26: a failure of story acquisition, narration, captions, assembly or
\* metadata makes generate_video return a result with success false and an
\* error text and raise nothing; when the failure is not one of narration the
\* call ends with that attempt and starts no other
C26_StageFailureReturned ==
    /\ [][C26_Step]_pipelineVars
    /\ []C26_Ended

C26_Witness ==
    /\ pipe_pc = "returned"
    /\ stage = "assemble"
    /\ attempt = 0
    /\ pipe_result = Returned([success |-> FALSE, error |-> {"tts"}])
    /\ Len(fetch_log) = 1


(***************************************************************************)
(* youtube_uploader.py: _resumable_upload (lines 176-218).                 *)
(***************************************************************************)

MaxChunkCalls == 6      \* next_chunk calls followed in one _resumable_upload call

upload_max_retries == 3

\* line 192: the statuses retried as server errors
RetriableStatuses == {500, 502, 503, 504}

\* statuses of the other HttpErrors next_chunk raises
OtherStatuses == {403}

\* what a next_chunk call that raised HttpError is remembered by
HttpError(status) == [kind |-> "HttpError", status |-> status]

InitUpload ==
    /\ CaptionsIdle
    /\ SchedulerNotStarted
    /\ PipelineIdle
    /\ CleanupIdle
    /\ up_pc = "loop"
    /\ retry = 0
    /\ response = "None"
    /\ up_error = FALSE
    /\ chunk_log = <<>>

\* the loop is at its head and will call next_chunk (line 183)
AtNextChunk ==
    /\ up_pc = "loop"
    /\ response = "None"
    /\ Len(chunk_log) < MaxChunkCalls

\* lines 194-199 and 206-211: a retry is left, it is counted and slept for
RetryLeft(n) == n < upload_max_retries

\* lines 185-186: next_chunk returns a status and no response, the upload
\* goes on
ChunkUploaded ==
    /\ AtNextChunk
    /\ chunk_log' = Append(chunk_log, [kind |-> "chunk"])
    /\ UNCHANGED <<up_pc, retry, response, up_error>>
    /\ UNCHANGED <<vars, schedulerVars, pipelineVars, cleanupVars>>

\* lines 185-188: next_chunk returns the response of the finished upload
ChunkFinal ==
    /\ AtNextChunk
    /\ chunk_log' = Append(chunk_log, [kind |-> "response", id |-> TRUE])
    /\ response' = "id"
    /\ up_pc' = "returned"
    /\ UNCHANGED <<retry, up_error>>
    /\ UNCHANGED <<vars, schedulerVars, pipelineVars, cleanupVars>>

\* lines 185-190, 204-213 and 215-216: next_chunk returns a response without
\* an id; the exception of line 190 is caught at line 204, and either the
\* loop is left because response is set and line 216 raises, or line 213
\* raises
ChunkWithoutId ==
    /\ AtNextChunk
    /\ chunk_log' = Append(chunk_log, [kind |-> "response", id |-> FALSE])
    /\ response' = "no id"
    /\ up_error' = TRUE
    /\ retry' = IF RetryLeft(retry) THEN retry + 1 ELSE retry
    /\ up_pc' = "raised"
    /\ UNCHANGED <<vars, schedulerVars, pipelineVars, cleanupVars>>

\* lines 191-200: next_chunk raises HttpError with a server error status.
\* With a retry left the loop continues after the wait; with none left the
\* if of line 195 has no else, the except clause ends and the loop continues
\* as well
ChunkServerError ==
    /\ AtNextChunk
    /\ \E status \in RetriableStatuses :
        chunk_log' = Append(chunk_log, HttpError(status))
    /\ up_error' = TRUE
    /\ retry' = IF RetryLeft(retry) THEN retry + 1 ELSE retry
    /\ UNCHANGED <<up_pc, response>>
    /\ UNCHANGED <<vars, schedulerVars, pipelineVars, cleanupVars>>

\* lines 191-192 and 201-203: next_chunk raises another HttpError
ChunkHttpError ==
    /\ AtNextChunk
    /\ \E status \in OtherStatuses :
        chunk_log' = Append(chunk_log, HttpError(status))
    /\ up_pc' = "raised"
    /\ UNCHANGED <<retry, response, up_error>>
    /\ UNCHANGED <<vars, schedulerVars, pipelineVars, cleanupVars>>

\* lines 204-213: next_chunk raises another exception
ChunkException ==
    /\ AtNextChunk
    /\ chunk_log' = Append(chunk_log, [kind |-> "Exception"])
    /\ up_error' = TRUE
    /\ IF RetryLeft(retry)
           THEN /\ retry' = retry + 1
                /\ up_pc' = up_pc
           ELSE /\ retry' = retry
                /\ up_pc' = "raised"
    /\ UNCHANGED response
    /\ UNCHANGED <<vars, schedulerVars, pipelineVars, cleanupVars>>

NextUpload ==
    \/ ChunkUploaded
    \/ ChunkFinal
    \/ ChunkWithoutId
    \/ ChunkServerError
    \/ ChunkHttpError
    \/ ChunkException

SpecUpload == InitUpload /\ [][NextUpload]_uploaderVars

\* C27: when every next_chunk call fails with HTTP 500, 502, 503 or 504,
\* _resumable_upload calls next_chunk at most 1 + max_retries = 4 times and
\* has raised after the fourth call
C27_ServerErrorsEndTheUpload ==
    (/\ chunk_log # <<>>
     /\ \A i \in DOMAIN chunk_log :
            /\ chunk_log[i].kind = "HttpError"
            /\ chunk_log[i].status \in RetriableStatuses)
        => /\ Len(chunk_log) <= 1 + upload_max_retries
           /\ Len(chunk_log) = 1 + upload_max_retries => up_pc = "raised"


(***************************************************************************)
(* story_cache.py: a sequence of add_story_id calls on one cache file.     *)
(***************************************************************************)

MaxAdds == 52           \* add_story_id calls in one run
MaxReAdds == 1          \* of them, calls with an id that was added before

InitCache ==
    /\ CaptionsIdle
    /\ SchedulerNotStarted
    /\ UploaderIdle
    /\ CleanupIdle
    /\ pipe_pc = "off"
    /\ attempt = 0
    /\ failed_story_ids = <<>>
    /\ story = 0
    /\ stage = "none"
    /\ used_ids = <<>>
    /\ pipe_result = [kind |-> "none"]
    /\ fetch_log = <<>>
    /\ narrated = {}
    /\ add_log = <<>>

\* the ids passed to add_story_id so far
AddedIds == {add_log[k].id : k \in DOMAIN add_log}

\* ids are numbered in the order in which they are first added
FreshId == Cardinality(AddedIds) + 1

\* the calls so far that passed an id added before
ReAdds == Len(add_log) - Cardinality(AddedIds)

\* the ids a call passes again: the first one ever added, which is the
\* oldest in the file until it is dropped, and the newest one in the file
ReAddPool == {1, used_ids[Len(used_ids)]}

\* add_story_id(story_id) (lines 34-39)
AddStoryId(story_id) ==
    /\ pipe_pc = "off"
    /\ Len(add_log) < MaxAdds
    /\ used_ids' = add_story_id(used_ids, story_id)
    /\ add_log' = Append(add_log, Added(used_ids, story_id))
    /\ UNCHANGED <<pipe_pc, attempt, failed_story_ids, story, stage, pipe_result,
                   fetch_log, narrated>>
    /\ UNCHANGED <<vars, schedulerVars, uploaderVars, cleanupVars>>

\* a call with an id never added before
AddFresh == AddStoryId(FreshId)

\* a call with an id added before
AddAgain ==
    /\ add_log # <<>>
    /\ ReAdds < MaxReAdds
    /\ \E story_id \in ReAddPool : AddStoryId(story_id)

NextCache == AddFresh \/ AddAgain

SpecCache == InitCache /\ [][NextCache]_pipelineVars

\* the call that first added id x
FirstAdded(x) ==
    CHOOSE k \in DOMAIN add_log :
        /\ add_log[k].id = x
        /\ \A j \in 1..(k - 1) : add_log[j].id # x

\* the last call that added id x while the file did not hold it
Inserted(x) ==
    CHOOSE k \in DOMAIN add_log :
        /\ add_log[k].id = x
        /\ ~add_log[k].present
        /\ \A j \in (k + 1)..Len(add_log) : add_log[j].id = x => add_log[j].present

\* the file holds at most MAX_CACHE_SIZE ids, none of them twice
C30_Bounded ==
    /\ Len(used_ids) <= MAX_CACHE_SIZE
    /\ \A i, j \in DOMAIN used_ids : used_ids[i] = used_ids[j] => i = j
    /\ Range(used_ids) \subseteq AddedIds

\* a call with an id the file holds leaves the file as it is
C30_Step ==
    (add_log' # add_log /\ add_log'[Len(add_log')].present)
        => used_ids' = used_ids

\* the ids the file holds stand in the order of Position, and every id it
\* misses comes before them all
OrderedBy(Position(_)) ==
    /\ \A i \in 1..(Len(used_ids) - 1) :
           Position(used_ids[i]) < Position(used_ids[i + 1])
    /\ \A x \in AddedIds \ Range(used_ids) :
           /\ Len(used_ids) = MAX_CACHE_SIZE
           /\ Position(x) < Position(Head(used_ids))

C30_FirstOrder == OrderedBy(FirstAdded)

C30_InsertedOrder == OrderedBy(Inserted)

\* C30: after any sequence of add_story_id calls the file holds at most 50
\* ids, none twice, in the order of their first insertion, the ids missing
\* being the ones first inserted longest ago; a call with an id the file
\* holds changes nothing
C30_FirstInsertionOrder ==
    /\ [][C30_Step]_pipelineVars
    /\ [](C30_Bounded /\ C30_FirstOrder)

\* C30, amended: the order is that of the calls that inserted the ids, an id
\* that was dropped and is added again counting as inserted by that call, and
\* the ids missing are the ones inserted longest ago
C30_InsertionOrder ==
    /\ [][C30_Step]_pipelineVars
    /\ [](C30_Bounded /\ C30_InsertedOrder)

\* 51 ids were added, the first was dropped and added again: it is the
\* newest in the file and the second was dropped for it
C30_Witness ==
    /\ pipe_pc = "off"
    /\ Len(add_log) = MAX_CACHE_SIZE + 2
    /\ add_log[Len(add_log)] = [id |-> 1, present |-> FALSE]
    /\ Len(used_ids) = MAX_CACHE_SIZE
    /\ used_ids[Len(used_ids)] = 1
    /\ Head(used_ids) = 3

=============================================================================
